---- MODULE Spec2Model ----
(***************************************************************************)
(* A model of the HDRezka stream-extraction worker (src/unnamed/part_000): *)
(* the deobfuscator clearTrash, the payload parser parseVideoUrls, the     *)
(* stream fetcher getStream, the page scrapers getContentInfo and          *)
(* searchContent, and the fetch handler that routes a request to them.     *)
(*                                                                         *)
(* Strings are TLA+ strings; a character is a string of length one.  One   *)
(* request is one sequential JavaScript computation: pc is its position,   *)
(* stack the return addresses of the calls in progress.                    *)
(***************************************************************************)
EXTENDS Integers, Sequences, FiniteSets, TLC

VARIABLES
    pc,            \* position of the computation
    stack,         \* return addresses of the calls in progress
    ret,           \* value returned by the call that finished last
    retOf,         \* name of the function that returned it
    thrown,        \* message of the error that escaped, "" when none
    trashString,   \* clearTrash: its argument
    cleaned,       \* clearTrash: the argument with the junk removed
    tried,         \* clearTrash: the strings handed to atob, in order
    lastIndex,     \* TRASH_PATTERN.lastIndex (the module-level regex)
    decoded,       \* parseVideoUrls: the deobfuscated payload
    parts,         \* parseVideoUrls: decoded.split(',')
    partIdx,       \* parseVideoUrls: index of the next part of the loop
    urls,          \* parseVideoUrls: the object being filled
    contentId,     \* getStream: argument
    translatorId,  \* getStream: argument
    season,        \* getStream: argument
    episode,       \* getStream: argument
    data,          \* getStream: the parsed JSON envelope
    videoUrls,     \* getStream: the quality -> url object
    pageUrl,       \* getContentInfo: its argument url
    query,         \* searchContent: its argument
    request,       \* fetch handler: the incoming request
    response,      \* fetch handler: the Response it answered with
    ajax,          \* the upstream's answer to the AJAX POST
    page,          \* the upstream's answer to the page fetch
    search,        \* the upstream's answer to the search fetch
    sent,          \* the outbound requests issued so far, in order
    inflight,      \* the positions in sent of the fetches not yet settled
    cancelled,     \* the incoming request was cancelled by its client
    log,           \* the requests handled before this one, with their answers
    state,         \* admin lists: the state object of lines 9-21
    badge,         \* admin lists: mode and text of the save badge
    backup,        \* admin lists: the envelope kept in localStorage
    now,           \* admin lists: the clock Date.now() reads
    timers,        \* admin lists: the timeouts set and neither run nor cleared
    puts,          \* admin lists: the PUT requests the last step has issued
    runs,          \* admin lists: the flushSave calls waiting at an await, in order
    loads,         \* admin lists: the callers of the hydrateLists calls waiting for the server
    calls,         \* admin lists: how many hydrateLists calls there were
    boot,          \* admin lists: how far init has come
    controls       \* admin lists: the lists were last drawn with the admin's handlers

\* The page of the lists: one grid of cards.
VARIABLES
    gridItems,     \* the items of the list a grid shows
    gridRows,      \* the rows the grid is laid out in
    gridMode,      \* "scroll" or "wrap"
    cards,         \* the cards of the grid in display order: item and data-list-index
    drawn,         \* the grid has been filled
    click          \* the control clicked last: card position and button, or <<>>

\* continue.js: the watch history and the metadata panel of the player.
VARIABLES
    history,       \* the history that localStorage holds, parsed
    clock,         \* what Date.now() reads
    call,          \* the call made last: its name and its argument
    steps,         \* number of calls made
    panel,         \* the panel: item, requestToken, cache, loading, what is rendered
    fetches        \* the fetchAndRender calls that wait

ctlVars == <<pc, stack, ret, retOf, thrown>>
ctVars == <<trashString, cleaned, tried, lastIndex>>
pvVars == <<decoded, parts, partIdx, urls>>
gsVars == <<contentId, translatorId, season, episode, data, videoUrls>>
ciVars == <<pageUrl>>
scVars == <<query>>
hdVars == <<request, response>>
netVars == <<ajax, page, search, sent, inflight>>
lifeVars == <<cancelled, log>>
workerVars == <<ctlVars, ctVars, pvVars, gsVars, ciVars, scVars, hdVars, netVars, lifeVars>>
adminVars == <<state, badge, backup, now, timers, puts, runs, loads, calls, boot, controls>>
gridVars == <<gridItems, gridRows, gridMode, cards, drawn, click>>
historyVars == <<history, clock, call, steps>>
panelVars == <<panel, fetches>>
pageVars == <<gridVars, historyVars, panelVars>>
vars == <<workerVars, adminVars, pageVars>>

-----------------------------------------------------------------------------
(* String primitives of the JavaScript runtime.                            *)

Chr(s, i) == SubSeq(s, i, i)

\* s has p at (1-based) index i
StartsWithAt(s, i, p) ==
    /\ i >= 1
    /\ i + Len(p) - 1 <= Len(s)
    /\ SubSeq(s, i, i + Len(p) - 1) = p

\* String.prototype.endsWith
EndsWith(s, p) == Len(p) <= Len(s) /\ SubSeq(s, Len(s) - Len(p) + 1, Len(s)) = p

\* c is one of the characters of the string chars (a regex character class)
OneOf(c, chars) == \E k \in 1..Len(chars) : Chr(chars, k) = c

\* first index >= from at which p occurs in s, 0 when there is none
IndexFrom(s, p, from) ==
    LET hits == {i \in from..Len(s) : StartsWithAt(s, i, p)}
    IN  IF hits = {} THEN 0 ELSE CHOOSE i \in hits : \A j \in hits : i <= j

\* String.prototype.includes
Includes(s, p) == \E i \in 1..(Len(s) + 1) : StartsWithAt(s, i, p) \/ p = ""

\* String.prototype.split with a non-empty separator
RECURSIVE Split(_, _)
Split(s, sep) ==
    LET i == IndexFrom(s, sep, 1)
    IN  IF i = 0 THEN <<s>>
        ELSE <<SubSeq(s, 1, i - 1)>> \o Split(SubSeq(s, i + Len(sep), Len(s)), sep)

-----------------------------------------------------------------------------
(* atob: the forgiving-base64 decode of the runtime.  A decoded byte in    *)
(* 32..126 is its ASCII character; any other byte, and the backquote (96), *)
(* which a TLA+ string cannot hold, is shown as a tab.                     *)

Printable ==
    " !\"#$%&'()*+,-./0123456789:;<=>?@ABCDEFGHIJKLMNOPQRSTUVWXYZ[\\]^_\tabcdefghijklmnopqrstuvwxyz{|}~"

B64Alphabet == "ABCDEFGHIJKLMNOPQRSTUVWXYZabcdefghijklmnopqrstuvwxyz0123456789+/"

B64Value == [c \in {Chr(B64Alphabet, i) : i \in 1..Len(B64Alphabet)} |->
                (CHOOSE i \in 1..Len(B64Alphabet) : Chr(B64Alphabet, i) = c) - 1]

CharCode == [c \in {Chr(Printable, i) : i \in 1..Len(Printable)} |->
                (CHOOSE i \in 1..Len(Printable) : Chr(Printable, i) = c) + 31]

FromCharCode(n) == IF n >= 32 /\ n <= 126 /\ n # 96 THEN Chr(Printable, n - 31) ELSE "\t"

IsB64Char(c) == c \in DOMAIN B64Value

AsciiWhitespace == {" ", "\t", "\n", "\f", "\r"}

\* step 1 of the decode: the text without its ASCII white space
RECURSIVE StripWhitespace(_)
StripWhitespace(s) ==
    LET ws == {i \in 1..Len(s) : Chr(s, i) \in AsciiWhitespace}
    IN  IF ws = {} THEN s
        ELSE LET i == CHOOSE i \in ws : \A j \in ws : i <= j
             IN  SubSeq(s, 1, i - 1) \o StripWhitespace(SubSeq(s, i + 1, Len(s)))

\* step 2 of the decode: a length divisible by 4 loses one or two trailing "="
DropPadding(s) ==
    IF Len(s) % 4 = 0 /\ Len(s) > 0
    THEN IF EndsWith(s, "==") THEN SubSeq(s, 1, Len(s) - 2)
         ELSE IF EndsWith(s, "=") THEN SubSeq(s, 1, Len(s) - 1)
         ELSE s
    ELSE s

AtobBody(s) == DropPadding(StripWhitespace(s))

\* atob(s) does not throw
AtobOk(s) ==
    LET b == AtobBody(s)
    IN  /\ Len(b) % 4 # 1
        /\ \A i \in 1..Len(b) : IsB64Char(Chr(b, i))

\* the bytes of a body: three of every four characters, two of a rest of
\* three, one of a rest of two (a long body is decoded half by half)
RECURSIVE DecodeBody(_)
DecodeBody(b) ==
    IF Len(b) > 4
    THEN LET half == 4 * (((Len(b) \div 4) + 1) \div 2)
         IN  DecodeBody(SubSeq(b, 1, half)) \o DecodeBody(SubSeq(b, half + 1, Len(b)))
    ELSE IF Len(b) = 4
    THEN LET n == B64Value[Chr(b, 1)] * 262144 + B64Value[Chr(b, 2)] * 4096
                  + B64Value[Chr(b, 3)] * 64 + B64Value[Chr(b, 4)]
         IN  FromCharCode(n \div 65536) \o FromCharCode((n \div 256) % 256)
             \o FromCharCode(n % 256)
    ELSE IF Len(b) = 3
    THEN LET n == (B64Value[Chr(b, 1)] * 4096 + B64Value[Chr(b, 2)] * 64
                   + B64Value[Chr(b, 3)]) \div 4
         IN  FromCharCode(n \div 256) \o FromCharCode(n % 256)
    ELSE IF Len(b) = 2
    THEN FromCharCode((B64Value[Chr(b, 1)] * 64 + B64Value[Chr(b, 2)]) \div 16)
    ELSE ""

\* the value of atob(s) when it does not throw
Atob(s) == DecodeBody(AtobBody(s))

\* The upstream's encoder: standard base64 with "=" padding (btoa).
RECURSIVE Btoa(_)
Btoa(s) ==
    IF s = "" THEN ""
    ELSE IF Len(s) > 3
    THEN LET half == 3 * (((Len(s) \div 3) + 1) \div 2)
         IN  Btoa(SubSeq(s, 1, half)) \o Btoa(SubSeq(s, half + 1, Len(s)))
    ELSE LET a == CharCode[Chr(s, 1)]
             b == IF Len(s) >= 2 THEN CharCode[Chr(s, 2)] ELSE 0
             c == IF Len(s) >= 3 THEN CharCode[Chr(s, 3)] ELSE 0
             n == a * 65536 + b * 256 + c
             e(k) == Chr(B64Alphabet, k + 1)
         IN  e(n \div 262144) \o e((n \div 4096) % 64)
             \o (IF Len(s) >= 2 THEN e((n \div 64) % 64) ELSE "=")
             \o (IF Len(s) >= 3 THEN e(n % 64) ELSE "=")

-----------------------------------------------------------------------------
(* JavaScript values, as far as the worker handles them.                   *)

Undefined == [t |-> "undefined"]
Null == [t |-> "null"]
NaN == [t |-> "number", nan |-> TRUE]
Bool(b) == [t |-> "boolean", bool |-> b]
Num(n) == [t |-> "number", num |-> n]
Str(s) == [t |-> "string", str |-> s]
\* an object: its own properties, <<key, value>> pairs in creation order
Obj(entries) == [t |-> "object", entries |-> entries]

IsString(v) == v.t = "string"

\* ToBoolean
Truthy(v) ==
    CASE v.t = "undefined" -> FALSE
      [] v.t = "null" -> FALSE
      [] v.t = "boolean" -> v.bool
      [] v.t = "number" -> v # NaN /\ v.num # 0
      [] v.t = "string" -> v.str # ""
      [] OTHER -> TRUE

\* an object without properties and with properties (maps from key to value)
MapHas(m, k) == \E i \in 1..Len(m) : m[i][1] = k

MapGet(m, k) == m[CHOOSE i \in 1..Len(m) : m[i][1] = k][2]

\* m[k] = v: an existing property keeps its place, a new one goes last
MapSet(m, k, v) ==
    IF MapHas(m, k)
    THEN [i \in 1..Len(m) |-> IF m[i][1] = k THEN <<k, v>> ELSE m[i]]
    ELSE Append(m, <<k, v>>)

\* v.k for a value v that is neither null nor undefined
GetProp(v, k) ==
    IF v.t = "object" /\ MapHas(v.entries, k) THEN MapGet(v.entries, k) ELSE Undefined

IsDigit(c) == OneOf(c, "0123456789")

DigitValue(c) == (CHOOSE i \in 1..16 : Chr("0123456789abcdef", i) = c
                                        \/ Chr("0123456789ABCDEF", i) = c) - 1

IsDigitOf(c, radix) ==
    (OneOf(c, "0123456789abcdef") \/ OneOf(c, "ABCDEF")) /\ DigitValue(c) < radix

\* the value of the longest prefix of s made of digits of the radix, with
\* acc the value read so far; seen tells whether a digit was read
RECURSIVE ReadDigits(_, _, _, _)
ReadDigits(s, radix, acc, seen) ==
    IF s # "" /\ IsDigitOf(Head(s), radix)
    THEN ReadDigits(Tail(s), radix, acc * radix + DigitValue(Head(s)), TRUE)
    ELSE [seen |-> seen, value |-> acc]

RECURSIVE TrimStart(_)
TrimStart(s) ==
    IF s # "" /\ Head(s) \in AsciiWhitespace THEN TrimStart(Tail(s)) ELSE s

\* parseInt(string): leading white space, a sign, an optional 0x, then the
\* digits; NaN when there is no digit
parseInt(s) ==
    LET t == TrimStart(s)
        neg == t # "" /\ Head(t) = "-"
        u == IF t # "" /\ OneOf(Head(t), "+-") THEN Tail(t) ELSE t
        hex == StartsWithAt(u, 1, "0x") \/ StartsWithAt(u, 1, "0X")
        r == IF hex THEN ReadDigits(SubSeq(u, 3, Len(u)), 16, 0, FALSE)
             ELSE ReadDigits(u, 10, 0, FALSE)
    IN  IF ~r.seen THEN NaN
        ELSE Num(IF neg THEN 0 - r.value ELSE r.value)

\* the decimal text of an integer
RECURSIVE NatToString(_)
NatToString(n) ==
    IF n < 10 THEN Chr("0123456789", n + 1)
    ELSE NatToString(n \div 10) \o Chr("0123456789", (n % 10) + 1)

\* ToString(v) of the language
JSToString(v) ==
    CASE v.t = "undefined" -> "undefined"
      [] v.t = "null" -> "null"
      [] v.t = "boolean" -> IF v.bool THEN "true" ELSE "false"
      [] v.t = "number" ->
            IF v = NaN THEN "NaN"
            ELSE IF v.num < 0 THEN "-" \o NatToString(0 - v.num)
            ELSE NatToString(v.num)
      [] v.t = "string" -> v.str
      [] OTHER -> "[object Object]"

\* k is an array index: the canonical decimal text of an integer below
\* 2^32-1.  Texts of up to nine digits are decided here; the model has no
\* longer numeric key.
IsArrayIndex(k) ==
    /\ k # ""
    /\ Len(k) <= 9
    /\ \A i \in 1..Len(k) : IsDigit(Chr(k, i))
    /\ NatToString(ReadDigits(k, 10, 0, FALSE).value) = k

\* the elements of the sequence s that satisfy Keep, in order
RECURSIVE SelectIndexKeys(_, _)
SelectIndexKeys(m, wanted) ==
    IF m = <<>> THEN <<>>
    ELSE (IF IsArrayIndex(m[1][1]) = wanted THEN <<m[1][1]>> ELSE <<>>)
         \o SelectIndexKeys(Tail(m), wanted)

\* ascending numeric order of array-index keys
RECURSIVE SortIndexKeys(_)
SortIndexKeys(ks) ==
    IF ks = <<>> THEN <<>>
    ELSE LET least == CHOOSE i \in 1..Len(ks) :
                          \A j \in 1..Len(ks) :
                              ReadDigits(ks[i], 10, 0, FALSE).value
                                  <= ReadDigits(ks[j], 10, 0, FALSE).value
         IN  <<ks[least]>>
             \o SortIndexKeys([i \in 1..(Len(ks) - 1) |->
                                  IF i < least THEN ks[i] ELSE ks[i + 1]])

\* Object.keys: the array-index keys in ascending numeric order, then the
\* other keys in creation order
ObjectKeys(m) == SortIndexKeys(SelectIndexKeys(m, TRUE)) \o SelectIndexKeys(m, FALSE)

-----------------------------------------------------------------------------
(* Calls and returns of the sequential computation.                        *)

\* return v from the function fn to the caller on top of the stack
Return(fn, v) ==
    /\ ret' = v
    /\ retOf' = fn
    /\ IF stack = <<>>
       THEN pc' = "done" /\ stack' = stack
       ELSE pc' = Head(stack) /\ stack' = Tail(stack)

\* the return addresses of the calls made inside the try block of the fetch
\* handler (lines 282-369)
HandlerFrames == {"fetch_search", "fetch_content", "fetch_info", "fetch_stream"}

\* an error thrown with these calls in progress: the catch clause of the
\* fetch handler takes it when one of its calls is among them, otherwise
\* nothing catches it
Throw(message) ==
    /\ pc' = IF \E i \in 1..Len(stack) : stack[i] \in HandlerFrames
             THEN "fetch_catch" ELSE "threw"
    /\ thrown' = message
    /\ stack' = <<>>
    /\ UNCHANGED <<ret, retOf>>

-----------------------------------------------------------------------------
(* clearTrash: the deobfuscator.                                           *)

\* the character classes of TRASH_PATTERN's two four-character alternatives
TrashHeadA(a, b) ==
    \/ a = "I" /\ OneOf(b, "01UV")
    \/ OneOf(a, "JQ") /\ OneOf(b, "EF")
    \/ a = "X" /\ OneOf(b, "kl")

TrashTailA(c, d) ==
    \/ OneOf(c, "A4") /\ OneOf(d, "=hjk")
    \/ OneOf(c, "B5") /\ OneOf(d, "Ae")

TrashHeadB(a, b) ==
    \/ a = "I" /\ OneOf(b, "Sy")
    \/ OneOf(a, "JQ") /\ b = "C"
    \/ a = "X" /\ b = "i"

TrashTailB(c, d) ==
    \/ OneOf(c, "EMQ") /\ OneOf(d, "=hjk")
    \/ OneOf(c, "FNR") /\ OneOf(d, "Ae")

\* length of the match of TRASH_PATTERN that starts at index i of s, 0 when
\* the pattern does not match there (the alternatives are tried in order)
TRASH_PATTERN(s, i) ==
    IF i = 1 /\ StartsWithAt(s, 1, "#h") THEN 2
    ELSE IF StartsWithAt(s, i, "//_//") THEN 5
    ELSE IF i + 3 <= Len(s)
            /\ \/ TrashHeadA(Chr(s, i), Chr(s, i + 1)) /\ TrashTailA(Chr(s, i + 2), Chr(s, i + 3))
               \/ TrashHeadB(Chr(s, i), Chr(s, i + 1)) /\ TrashTailB(Chr(s, i + 2), Chr(s, i + 3))
    THEN 4
    ELSE 0

\* index of the leftmost match of TRASH_PATTERN in s at or after i, 0 when
\* there is none
NextTrashMatch(s, i) ==
    LET hits == {j \in i..Len(s) : TRASH_PATTERN(s, j) > 0}
    IN  IF hits = {} THEN 0 ELSE CHOOSE j \in hits : \A k \in hits : j <= k

\* s.replace(TRASH_PATTERN, '') from index i on: the g flag removes every
\* match, scanning left to right and resuming behind each match
RECURSIVE ReplaceTrashFrom(_, _)
ReplaceTrashFrom(s, i) ==
    LET j == NextTrashMatch(s, i)
    IN  IF j = 0 THEN SubSeq(s, i, Len(s))
        ELSE SubSeq(s, i, j - 1) \o ReplaceTrashFrom(s, j + TRASH_PATTERN(s, j))

\* the same without the g flag: only the first match is removed
ReplaceTrashOnce(s) ==
    LET j == NextTrashMatch(s, 1)
    IN  IF j = 0 THEN s
        ELSE SubSeq(s, 1, j - 1) \o SubSeq(s, j + TRASH_PATTERN(s, j), Len(s))

ReplaceTrash(s) == ReplaceTrashFrom(s, 1)

\* a replace that scans from the pattern's lastIndex on and leaves lastIndex
\* behind the last match, as a loop over TRASH_PATTERN.exec would
clearTrash_replace_exec ==
    /\ pc = "clearTrash"
    /\ LET from == IF lastIndex < Len(trashString) THEN lastIndex + 1 ELSE 1
           hits == {j \in from..Len(trashString) : TRASH_PATTERN(trashString, j) > 0}
       IN  /\ cleaned' = SubSeq(trashString, 1, from - 1)
                         \o ReplaceTrashFrom(trashString, from)
           /\ lastIndex' = IF hits = {} THEN 0
                           ELSE LET j == CHOOSE j \in hits : \A k \in hits : k <= j
                                IN  j + TRASH_PATTERN(trashString, j) - 1
    /\ tried' = <<>>
    /\ pc' = "clearTrash_try"
    /\ UNCHANGED <<stack, ret, retOf, thrown, trashString, pvVars, gsVars, ciVars, scVars,
                   hdVars, netVars, lifeVars, adminVars, pageVars>>

\* line 25: const cleaned = trashString.replace(TRASH_PATTERN, '')
clearTrash_replace ==
    /\ pc = "clearTrash"
    /\ cleaned' = ReplaceTrash(trashString)
    /\ lastIndex' = 0
    /\ tried' = <<>>
    /\ pc' = "clearTrash_try"
    /\ UNCHANGED <<stack, ret, retOf, thrown, trashString, pvVars, gsVars, ciVars, scVars, hdVars, netVars,
                   lifeVars, adminVars, pageVars>>

\* lines 27-29: atob(cleaned + '==')
clearTrash_try ==
    /\ pc = "clearTrash_try"
    /\ LET padded == cleaned \o "=="
       IN  /\ tried' = Append(tried, padded)
           /\ IF AtobOk(padded)
              THEN Return("clearTrash", Atob(padded))
              ELSE pc' = "clearTrash_retry" /\ UNCHANGED <<stack, ret, retOf>>
    /\ UNCHANGED <<thrown, trashString, cleaned, lastIndex, pvVars, gsVars, ciVars, scVars, hdVars, netVars,
                   lifeVars, adminVars, pageVars>>

\* a retry whose failure escapes instead of being caught
clearTrash_retry_uncaught ==
    /\ pc = "clearTrash_retry"
    /\ tried' = Append(tried, cleaned)
    /\ IF AtobOk(cleaned)
       THEN Return("clearTrash", Atob(cleaned)) /\ UNCHANGED thrown
       ELSE pc' = "threw" /\ thrown' = "InvalidCharacterError"
            /\ UNCHANGED <<stack, ret, retOf>>
    /\ UNCHANGED <<trashString, cleaned, lastIndex, pvVars, gsVars, ciVars, scVars, hdVars, netVars,
                   lifeVars, adminVars, pageVars>>

\* lines 30-37: the catch retries atob(cleaned); a second failure returns ''
clearTrash_retry ==
    /\ pc = "clearTrash_retry"
    /\ tried' = Append(tried, cleaned)
    /\ Return("clearTrash", IF AtobOk(cleaned) THEN Atob(cleaned) ELSE "")
    /\ UNCHANGED <<thrown, trashString, cleaned, lastIndex, pvVars, gsVars, ciVars, scVars, hdVars, netVars,
                   lifeVars, adminVars, pageVars>>

-----------------------------------------------------------------------------
(* parseVideoUrls: the stream-payload parser.                              *)

LineTerminators == {"\n", "\r"}

\* line 51: part.match(/^\[([^\]]+)\](.+)$/): "[", a non-empty run without
\* "]" up to the first "]", then a non-empty rest without a line terminator
MatchPart(part) ==
    LET close == IndexFrom(part, "]", 2)
        rest == SubSeq(part, close + 1, Len(part))
    IN  IF /\ StartsWithAt(part, 1, "[")
           /\ close >= 3
           /\ close < Len(part)
           /\ \A i \in 1..Len(rest) : Chr(rest, i) \notin LineTerminators
        THEN [matched |-> TRUE, quality |-> SubSeq(part, 2, close - 1), urlPart |-> rest]
        ELSE [matched |-> FALSE]

\* the same, taking the last option that ends with ".m3u8" (no break)
LastPlayable(urlOptions) ==
    LET hits == {i \in 1..Len(urlOptions) : EndsWith(urlOptions[i], ".m3u8")}
    IN  IF hits = {} THEN 0 ELSE CHOOSE i \in hits : \A j \in hits : i >= j

\* lines 57-62: index of the first option that ends with ".m3u8", else 0
FirstPlayable(urlOptions) ==
    LET hits == {i \in 1..Len(urlOptions) : EndsWith(urlOptions[i], ".m3u8")}
    IN  IF hits = {} THEN 0 ELSE CHOOSE i \in hits : \A j \in hits : i <= j

\* lines 51-63: the body of the loop for one part
ProcessPart(m, part) ==
    LET match == MatchPart(part)
    IN  IF ~match.matched THEN m
        ELSE LET urlOptions == Split(match.urlPart, " or ")
                 k == FirstPlayable(urlOptions)
             IN  IF k = 0 THEN m ELSE MapSet(m, match.quality, urlOptions[k])

\* line 45: const decoded = clearTrash(data).  The call reads
\* trashString.replace, which is no function unless the argument is a string;
\* base is the stack with the caller's return address on it.
parseVideoUrls_call(arg, base) ==
    IF IsString(arg)
    THEN /\ pc' = "clearTrash"
         /\ stack' = <<"parseVideoUrls_split">> \o base
         /\ trashString' = arg.str
         /\ UNCHANGED <<ret, retOf, thrown>>
    ELSE /\ Throw("trashString.replace is not a function")
         /\ UNCHANGED trashString

\* lines 45-49: clearTrash has returned; split the payload
parseVideoUrls_split ==
    /\ pc = "parseVideoUrls_split"
    /\ decoded' = ret
    /\ urls' = <<>>
    /\ parts' = Split(ret, ",")
    /\ partIdx' = 1
    /\ pc' = "parseVideoUrls_part"
    /\ UNCHANGED <<stack, ret, retOf, thrown, ctVars, gsVars, ciVars, scVars, hdVars, netVars,
                   lifeVars, adminVars, pageVars>>

\* lines 50-64: one turn of the loop
parseVideoUrls_part ==
    /\ pc = "parseVideoUrls_part"
    /\ partIdx <= Len(parts)
    /\ urls' = ProcessPart(urls, parts[partIdx])
    /\ partIdx' = partIdx + 1
    /\ UNCHANGED <<ctlVars, decoded, parts, ctVars, gsVars, ciVars, scVars, hdVars, netVars,
                   lifeVars, adminVars, pageVars>>

\* line 66: return urls
parseVideoUrls_return ==
    /\ pc = "parseVideoUrls_part"
    /\ partIdx > Len(parts)
    /\ Return("parseVideoUrls", urls)
    /\ UNCHANGED <<thrown, pvVars, ctVars, gsVars, ciVars, scVars, hdVars, netVars,
                   lifeVars, adminVars, pageVars>>

-----------------------------------------------------------------------------
(* parseSubtitles and getStream: the stream fetcher.                       *)

\* Object.entries of a value: own properties of an object in Object.keys
\* order, the characters of a string, nothing for another primitive
ObjectEntries(v) ==
    IF v.t = "object"
    THEN LET ks == ObjectKeys(v.entries)
         IN  [i \in 1..Len(ks) |-> <<ks[i], MapGet(v.entries, ks[i])>>]
    ELSE IF v.t = "string"
    THEN [i \in 1..Len(v.str) |-> <<NatToString(i - 1), Str(Chr(v.str, i))>>]
    ELSE <<>>

\* the loop without the test for the code "off"
RECURSIVE SubtitleEntriesWithOff(_, _)
SubtitleEntriesWithOff(entries, subtitleData) ==
    IF entries = <<>> THEN <<>>
    ELSE (IF Truthy(subtitleData)
          THEN <<[lang |-> entries[1][1], name |-> entries[1][2], url |-> subtitleData]>>
          ELSE <<>>)
         \o SubtitleEntriesWithOff(Tail(entries), subtitleData)

RECURSIVE SubtitleEntries(_, _)
SubtitleEntries(entries, subtitleData) ==
    IF entries = <<>> THEN <<>>
    ELSE (IF entries[1][1] # "off" /\ Truthy(subtitleData)
          THEN <<[lang |-> entries[1][1], name |-> entries[1][2], url |-> subtitleData]>>
          ELSE <<>>)
         \o SubtitleEntries(Tail(entries), subtitleData)

\* lines 72-87
parseSubtitles(subtitleData, subtitleLns) ==
    IF Truthy(subtitleData) /\ Truthy(subtitleLns)
    THEN SubtitleEntries(ObjectEntries(subtitleLns), subtitleData)
    ELSE <<>>

\* the form with the series branch taken when either value is given
FormDataEither(id, tid, s, e) ==
    <<<<"id", JSToString(id)>>, <<"translator_id", JSToString(tid)>>>>
    \o (IF s # Null \/ e # Null
        THEN <<<<"action", "get_stream">>, <<"season", JSToString(s)>>,
               <<"episode", JSToString(e)>>>>
        ELSE <<<<"action", "get_movie">>>>)

\* lines 155-165: the fields of the form, <<name, text>> in append order
FormData(id, tid, s, e) ==
    <<<<"id", JSToString(id)>>, <<"translator_id", JSToString(tid)>>>>
    \o (IF s # Null /\ e # Null
        THEN <<<<"action", "get_stream">>, <<"season", JSToString(s)>>,
               <<"episode", JSToString(e)>>>>
        ELSE <<<<"action", "get_movie">>>>)

\* line 176: formData.toString(); the texts of the model need no escaping
RECURSIVE FormBody(_)
FormBody(form) ==
    IF form = <<>> THEN ""
    ELSE form[1][1] \o "=" \o form[1][2]
         \o (IF Len(form) > 1 THEN "&" ELSE "") \o FormBody(Tail(form))

\* the comparator with its operands exchanged
compareQualitiesDescending(a, b) ==
    LET aNum == IF Truthy(parseInt(a)) THEN parseInt(a).num ELSE 0
        bNum == IF Truthy(parseInt(b)) THEN parseInt(b).num ELSE 0
    IN  bNum - aNum

\* lines 195-197: the comparator of the sort, aNum - bNum
compareQualities(a, b) ==
    LET aNum == IF Truthy(parseInt(a)) THEN parseInt(a).num ELSE 0
        bNum == IF Truthy(parseInt(b)) THEN parseInt(b).num ELSE 0
    IN  aNum - bNum

\* Array.prototype.sort with compareQualities: a stable sort; each element
\* goes behind the elements that do not compare greater
RECURSIVE SortQualities(_)
SortQualities(ks) ==
    IF ks = <<>> THEN <<>>
    ELSE LET front == SortQualities(SubSeq(ks, 1, Len(ks) - 1))
             x == ks[Len(ks)]
             n == Cardinality({i \in 1..Len(front) : compareQualities(front[i], x) <= 0})
         IN  SubSeq(front, 1, n) \o <<x>> \o SubSeq(front, n + 1, Len(front))

\* lines 200-201 with the first key taken as the best one
StreamUrlOfFirst(m, qualities) ==
    LET bestQuality == IF qualities = <<>> THEN "undefined" ELSE qualities[1]
    IN  IF MapHas(m, bestQuality) /\ MapGet(m, bestQuality) # ""
        THEN MapGet(m, bestQuality) ELSE ""

\* lines 200-201: videoUrls[qualities[qualities.length - 1]] || ''
StreamUrl(m, qualities) ==
    LET bestQuality == IF qualities = <<>> THEN "undefined"
                       ELSE qualities[Len(qualities)]
    IN  IF MapHas(m, bestQuality) /\ MapGet(m, bestQuality) # ""
        THEN MapGet(m, bestQuality) ELSE ""

\* lines 191-208: the StreamResult
StreamResult(envelope, m) ==
    LET qualities == SortQualities(ObjectKeys(m))
    IN  [stream_url |-> StreamUrl(m, qualities),
         qualities |-> qualities,
         subtitles |-> parseSubtitles(GetProp(envelope, "subtitle"),
                                      GetProp(envelope, "subtitle_lns")),
         all_urls |-> m]

\* response.ok
Ok(status) == status >= 200 /\ status <= 299

\* lines 154-177: build the form and issue the POST (season and episode
\* default to null when not passed)
getStream_request ==
    /\ pc = "getStream"
    /\ season' = IF season = Undefined THEN Null ELSE season
    /\ episode' = IF episode = Undefined THEN Null ELSE episode
    /\ inflight' = inflight \cup {Len(sent) + 1}
    /\ sent' = Append(sent, [url |-> "/ajax/get_cdn_series/", method |-> "POST",
                             body |-> FormBody(FormData(contentId, translatorId,
                                                        season', episode'))])
    /\ pc' = "getStream_fetch"
    /\ UNCHANGED <<stack, ret, retOf, thrown, ctVars, pvVars,
                   contentId, translatorId, data, videoUrls, ciVars, scVars, hdVars, ajax, page, search,
                   lifeVars, adminVars, pageVars>>

\* lines 167-181: the fetch settles; a rejection or a status outside 2xx throws
getStream_fetch ==
    /\ pc = "getStream_fetch"
    /\ IF ajax.kind = "reject" THEN Throw("fetch failed")
       ELSE IF ~Ok(ajax.status)
       THEN Throw("AJAX request failed: " \o NatToString(ajax.status))
       ELSE pc' = "getStream_json" /\ UNCHANGED <<stack, ret, retOf, thrown>>
    /\ inflight' = inflight \ {Len(sent)}
    /\ UNCHANGED <<ctVars, pvVars, gsVars, ciVars, scVars, hdVars, ajax, page, search, sent,
                   lifeVars, adminVars, pageVars>>

\* the check that also takes a missing success field for a failure
RejectedOrUnflagged(envelope) == ~Truthy(GetProp(envelope, "success"))

\* the envelope's explicit failure flag: a success field present and falsy
Rejected(envelope) ==
    ~Truthy(GetProp(envelope, "success")) /\ GetProp(envelope, "success") # Undefined

\* lines 183-190: response.json() settles; the failure flag is checked and
\* the url field handed to parseVideoUrls
getStream_json ==
    /\ pc = "getStream_json"
    /\ IF ajax.body = [t |-> "notjson"]
       THEN Throw("Unexpected token") /\ UNCHANGED <<data, videoUrls, trashString>>
       ELSE /\ data' = ajax.body
            /\ IF ajax.body = Null
               THEN /\ Throw("Cannot read properties of null")
                    /\ UNCHANGED <<videoUrls, trashString>>
               ELSE IF Rejected(ajax.body)
               THEN /\ Throw(IF Truthy(GetProp(ajax.body, "message"))
                             THEN JSToString(GetProp(ajax.body, "message"))
                             ELSE "AJAX request failed")
                    /\ UNCHANGED <<videoUrls, trashString>>
               ELSE IF Truthy(GetProp(ajax.body, "url"))
               THEN /\ parseVideoUrls_call(GetProp(ajax.body, "url"),
                                           <<"getStream_parsed">> \o stack)
                    /\ UNCHANGED videoUrls
               ELSE /\ videoUrls' = <<>>
                    /\ pc' = "getStream_result"
                    /\ UNCHANGED <<stack, ret, retOf, thrown, trashString>>
    /\ UNCHANGED <<cleaned, tried, lastIndex, pvVars,
                   contentId, translatorId, season, episode, ciVars, scVars, hdVars, netVars, lifeVars, adminVars, pageVars>>

\* line 190: parseVideoUrls has returned
getStream_parsed ==
    /\ pc = "getStream_parsed"
    /\ videoUrls' = ret
    /\ pc' = "getStream_result"
    /\ UNCHANGED <<stack, ret, retOf, thrown, ctVars, pvVars,
                   contentId, translatorId, season, episode, data, ciVars, scVars, hdVars, netVars, lifeVars, adminVars, pageVars>>

\* lines 191-208: subtitles, the sort, the best quality, the result
getStream_result ==
    /\ pc = "getStream_result"
    /\ Return("getStream", StreamResult(data, videoUrls))
    /\ UNCHANGED <<thrown, ctVars, pvVars, gsVars, ciVars, scVars, hdVars, netVars,
                   lifeVars, adminVars, pageVars>>

-----------------------------------------------------------------------------
(* getContentInfo: the content-page scraper.                               *)

Least(S) == CHOOSE i \in S : \A j \in S : i <= j

Greatest(S) == CHOOSE i \in S : \A j \in S : i >= j

\* index behind the run of digits that starts at index j of s
DigitsEnd(s, j) ==
    LET stops == {k \in j..Len(s) : ~IsDigit(Chr(s, k))}
    IN  IF stops = {} THEN Len(s) + 1 ELSE Least(stops)

\* the match of /name="(\d+)"/ that starts at index i of s
AttrAt(s, i, name) ==
    LET open == name \o "=\""
        j == i + Len(open)
        e == DigitsEnd(s, j)
    IN  IF StartsWithAt(s, i, open) /\ e > j /\ e <= Len(s) /\ Chr(s, e) = "\""
        THEN [matched |-> TRUE, value |-> SubSeq(s, j, e - 1), end |-> e + 1]
        ELSE [matched |-> FALSE]

\* html.match(/name="(\d+)"/): the digits of the first match, or null
FirstAttr(html, name) ==
    LET hits == {i \in 1..Len(html) : AttrAt(html, i, name).matched}
    IN  IF hits = {} THEN Null ELSE Str(AttrAt(html, Least(hits), name).value)

\* the digits of the last match, or null
LastAttr(html, name) ==
    LET hits == {i \in 1..Len(html) : AttrAt(html, i, name).matched}
    IN  IF hits = {} THEN Null ELSE Str(AttrAt(html, Greatest(hits), name).value)

RECURSIVE TrimEnd(_)
TrimEnd(s) ==
    IF s # "" /\ Chr(s, Len(s)) \in AsciiWhitespace
    THEN TrimEnd(SubSeq(s, 1, Len(s) - 1)) ELSE s

\* String.prototype.trim
Trim(s) == TrimEnd(TrimStart(s))

\* line 116: the match of /data-translator_id="(\d+)"[^>]*>([^<]+)</ that
\* starts at index i: the attribute, the rest of the tag up to its first
\* ">", then a non-empty text up to the next "<"
TranslatorAt(html, i) ==
    LET attr == AttrAt(html, i, "data-translator_id")
        gt == IF attr.matched THEN IndexFrom(html, ">", attr.end) ELSE 0
        lt == IF gt > 0 THEN IndexFrom(html, "<", gt + 1) ELSE 0
    IN  IF attr.matched /\ gt > 0 /\ lt > gt + 1
        THEN [matched |-> TRUE, id |-> attr.value,
              name |-> SubSeq(html, gt + 1, lt - 1), end |-> lt + 1]
        ELSE [matched |-> FALSE]

\* the loop that leaves out a pair it has pushed before
RECURSIVE TranslatorsOnce(_, _)
TranslatorsOnce(html, from) ==
    LET hits == {i \in from..Len(html) : TranslatorAt(html, i).matched}
    IN  IF hits = {} THEN <<>>
        ELSE LET m == TranslatorAt(html, Least(hits))
                 entry == [id |-> parseInt(m.id), name |-> Trim(m.name)]
                 rest == TranslatorsOnce(html, m.end)
             IN  <<entry>> \o SelectSeq(rest, LAMBDA e : e # entry)

\* lines 115-120: the exec loop, each search resuming behind the last match
RECURSIVE Translators(_, _)
Translators(html, from) ==
    LET hits == {i \in from..Len(html) : TranslatorAt(html, i).matched}
    IN  IF hits = {} THEN <<>>
        ELSE LET m == TranslatorAt(html, Least(hits))
             IN  <<[id |-> parseInt(m.id), name |-> Trim(m.name)]>>
                 \o Translators(html, m.end)

\* line 126: the match of
\* /data-season_id="(\d+)"[^>]*data-episode_id="(\d+)"/ that starts at index
\* i: the greedy [^>]* gives the last episode attribute before the next ">"
EpisodeAt(html, i) ==
    LET attr == AttrAt(html, i, "data-season_id")
        gt == IF attr.matched THEN IndexFrom(html, ">", attr.end) ELSE 0
        last == IF gt = 0 THEN Len(html) ELSE gt - 1
        hits == IF attr.matched
                THEN {k \in attr.end..last : AttrAt(html, k, "data-episode_id").matched}
                ELSE {}
    IN  IF hits # {}
        THEN [matched |-> TRUE, seasonId |-> attr.value,
              episodeId |-> AttrAt(html, Greatest(hits), "data-episode_id").value,
              end |-> AttrAt(html, Greatest(hits), "data-episode_id").end]
        ELSE [matched |-> FALSE]

\* the turn that pushes every episode met, met before or not
AddEpisodeAlways(seasons, seasonId, episodeId) ==
    LET known == IF MapHas(seasons, seasonId) THEN MapGet(seasons, seasonId) ELSE <<>>
    IN  MapSet(seasons, seasonId, Append(known, episodeId))

\* lines 133-138: one turn of the loop on the seasons object
AddEpisode(seasons, seasonId, episodeId) ==
    LET known == IF MapHas(seasons, seasonId) THEN MapGet(seasons, seasonId) ELSE <<>>
    IN  IF \E n \in 1..Len(known) : known[n] = episodeId
        THEN MapSet(seasons, seasonId, known)
        ELSE MapSet(seasons, seasonId, Append(known, episodeId))

\* lines 129-139: the exec loop over the season/episode pairs
RECURSIVE Seasons(_, _, _)
Seasons(html, from, seasons) ==
    LET hits == {i \in from..Len(html) : EpisodeAt(html, i).matched}
    IN  IF hits = {} THEN seasons
        ELSE LET m == EpisodeAt(html, Least(hits))
             IN  Seasons(html, m.end,
                         AddEpisode(seasons, m.seasonId, parseInt(m.episodeId).num))

\* the classification by the page alone, the URL left out
IsSeriesOfHtml(html, url) ==
    Includes(html, "sof.tv") \/ Includes(html, "data-season_id")

\* line 112
IsSeries(html, url) ==
    Includes(html, "sof.tv") \/ Includes(html, "data-season_id") \/ Includes(url, "/series/")

\* the ContentInfo with the last data-id of the page taken for the id
ContentInfoOfLastId(html, url) ==
    [id |-> LastAttr(html, "data-id"),
     translatorId |-> FirstAttr(html, "data-translator_id"),
     isSeries |-> IsSeries(html, url),
     translators |-> Translators(html, 1),
     seasons |-> IF IsSeries(html, url) THEN Seasons(html, 1, <<>>) ELSE <<>>]

\* the ContentInfo whose isSeries field looks at the URL alone
ContentInfoSeriesByUrl(html, url) ==
    [id |-> FirstAttr(html, "data-id"),
     translatorId |-> FirstAttr(html, "data-translator_id"),
     isSeries |-> Includes(url, "/series/"),
     translators |-> Translators(html, 1),
     seasons |-> IF IsSeries(html, url) THEN Seasons(html, 1, <<>>) ELSE <<>>]

\* lines 103-148: the ContentInfo of a page
ContentInfo(html, url) ==
    [id |-> FirstAttr(html, "data-id"),
     translatorId |-> FirstAttr(html, "data-translator_id"),
     isSeries |-> IsSeries(html, url),
     translators |-> Translators(html, 1),
     seasons |-> IF IsSeries(html, url) THEN Seasons(html, 1, <<>>) ELSE <<>>]

\* lines 92-95: issue the page fetch
getContentInfo_request ==
    /\ pc = "getContentInfo"
    /\ inflight' = inflight \cup {Len(sent) + 1}
    /\ sent' = Append(sent, [url |-> pageUrl, method |-> "GET", body |-> ""])
    /\ pc' = "getContentInfo_fetch"
    /\ UNCHANGED <<stack, ret, retOf, thrown, ctVars, pvVars, gsVars, ciVars, scVars, hdVars, ajax, page, search,
                   lifeVars, adminVars, pageVars>>

\* lines 93-99: the fetch settles; a rejection or a status outside 2xx throws
getContentInfo_fetch ==
    /\ pc = "getContentInfo_fetch"
    /\ IF page.kind = "reject" THEN Throw("fetch failed")
       ELSE IF ~Ok(page.status)
       THEN Throw("Failed to fetch page: " \o NatToString(page.status))
       ELSE pc' = "getContentInfo_text" /\ UNCHANGED <<stack, ret, retOf, thrown>>
    /\ inflight' = inflight \ {Len(sent)}
    /\ UNCHANGED <<ctVars, pvVars, gsVars, ciVars, scVars, hdVars, ajax, page, search, sent,
                   lifeVars, adminVars, pageVars>>

\* the scraper that takes a page without a content id for a failure
getContentInfo_text_strict ==
    /\ pc = "getContentInfo_text"
    /\ IF ContentInfo(page.html, pageUrl).id = Null
       THEN Throw("Could not find content ID")
       ELSE Return("getContentInfo", ContentInfo(page.html, pageUrl)) /\ UNCHANGED thrown
    /\ UNCHANGED <<ctVars, pvVars, gsVars, ciVars, scVars, hdVars, netVars, lifeVars, adminVars, pageVars>>

\* lines 101-148: response.text() settles; scrape the page and return
getContentInfo_text ==
    /\ pc = "getContentInfo_text"
    /\ Return("getContentInfo", ContentInfo(page.html, pageUrl))
    /\ UNCHANGED <<thrown, ctVars, pvVars, gsVars, ciVars, scVars, hdVars, netVars,
                   lifeVars, adminVars, pageVars>>

-----------------------------------------------------------------------------
(* searchContent: the search-page scraper.                                 *)

HDREZKA_MIRROR == "https://hdrezka.me"

HexDigits == "0123456789ABCDEF"

\* characters encodeURIComponent leaves as they are
UriUnreserved ==
    "ABCDEFGHIJKLMNOPQRSTUVWXYZabcdefghijklmnopqrstuvwxyz0123456789-_.!~*'()"

\* encodeURIComponent of a string of single-byte characters
RECURSIVE encodeURIComponent(_)
encodeURIComponent(s) ==
    IF s = "" THEN ""
    ELSE LET c == Chr(s, 1)
             n == CharCode[c]
         IN  (IF OneOf(c, UriUnreserved) THEN c
              ELSE "%" \o Chr(HexDigits, (n \div 16) + 1) \o Chr(HexDigits, (n % 16) + 1))
             \o encodeURIComponent(SubSeq(s, 2, Len(s)))

\* line 215
SearchUrl(q) ==
    HDREZKA_MIRROR \o "/search/?do=search&subaction=search&q=" \o encodeURIComponent(q)

\* characters of the regex class \s that the pages use
RegexSpace == {" ", "\t", "\n", "\r", "\f"}

\* "([^"]+)" with the opening quote just before index j: the text up to the
\* next quote, which must not be empty
QuotedAt(s, j) ==
    LET q == IndexFrom(s, "\"", j)
    IN  IF q > j THEN [matched |-> TRUE, value |-> SubSeq(s, j, q - 1), end |-> q + 1]
        ELSE [matched |-> FALSE]

\* ([^<]*)<\/div> behind the <div> at index q, lt the next "<"
InfoClose(html, q, lt) ==
    IF lt > 0 /\ StartsWithAt(html, lt, "</div>")
    THEN [matched |-> TRUE, info |-> SubSeq(html, q + 5, lt - 1), end |-> lt + 6]
    ELSE [matched |-> FALSE]

\* <div>([^<]*)<\/div> at index q
InfoAt(html, q) ==
    IF StartsWithAt(html, q, "<div>")
    THEN InfoClose(html, q, IndexFrom(html, "<", q + 5))
    ELSE [matched |-> FALSE]

\* [\s\S]*?<div>([^<]*)<\/div> from index p: the first place it matches
InfoFrom(html, p) ==
    LET hits == {q \in p..Len(html) : InfoAt(html, q).matched}
    IN  IF hits = {} THEN [matched |-> FALSE] ELSE InfoAt(html, Least(hits))

LinkOpen == "<div class=\"b-content__inline_item-link\">"

\* index of the first character at or behind j that is no white space
SkipSpace(s, j) ==
    LET stops == {k \in j..Len(s) : Chr(s, k) \notin RegexSpace}
    IN  IF stops = {} THEN Len(s) + 1 ELSE Least(stops)

\* ([^<]+)<\/a> behind the ">" at index gt, lt the next "<"
LinkText(html, gt, lt) ==
    IF lt > gt + 1 /\ StartsWithAt(html, lt, "</a>")
    THEN [matched |-> TRUE, title |-> SubSeq(html, gt + 1, lt - 1), end |-> lt + 4]
    ELSE [matched |-> FALSE]

\* [^>]*>([^<]+)<\/a> with gt the first ">" behind the <a
LinkTag(html, gt) ==
    IF gt > 0 THEN LinkText(html, gt, IndexFrom(html, "<", gt + 1))
    ELSE [matched |-> FALSE]

\* <a[^>]*>([^<]+)<\/a> at index a
LinkAnchor(html, a) ==
    IF StartsWithAt(html, a, "<a") THEN LinkTag(html, IndexFrom(html, ">", a + 2))
    ELSE [matched |-> FALSE]

\* <div class="b-content__inline_item-link">\s*<a[^>]*>([^<]+)<\/a> at q
LinkAt(html, q) ==
    IF StartsWithAt(html, q, LinkOpen)
    THEN LinkAnchor(html, SkipSpace(html, q + Len(LinkOpen)))
    ELSE [matched |-> FALSE]

RECURSIVE LinkFrom(_, _)

\* the link l at index q and the info d found behind it
LinkInfo(html, q, l, d) ==
    IF d.matched
    THEN [matched |-> TRUE, title |-> l.title, info |-> d.info, end |-> d.end]
    ELSE LinkFrom(html, q + 1)

\* the outcome l of matching the link at index q
LinkRest(html, q, l) ==
    IF l.matched THEN LinkInfo(html, q, l, InfoFrom(html, l.end))
    ELSE LinkFrom(html, q + 1)

\* q the next place of the link's opening tag, 0 when there is none
LinkNext(html, q) ==
    IF q = 0 THEN [matched |-> FALSE] ELSE LinkRest(html, q, LinkAt(html, q))

\* the link and everything behind it, from index p: the first link (the
\* lazy [\s\S]*?) from which the rest of the pattern matches
LinkFrom(html, p) == LinkNext(html, IndexFrom(html, LinkOpen, p))

\* "([^"]+)" at index r behind name=, gt the first ">" at or behind the
\* start of the tag's attributes: no ">" may stand before r (the [^>]*)
TagAttrIn(html, r, name, gt) ==
    IF gt = 0 \/ gt >= r THEN QuotedAt(html, r + Len(name) + 2)
    ELSE [matched |-> FALSE]

\* name="([^"]+)" at index r of the tag whose attributes start at index a
TagAttrAt(html, a, r, name) ==
    IF StartsWithAt(html, r, name \o "=\"")
    THEN TagAttrIn(html, r, name, IndexFrom(html, ">", a))
    ELSE [matched |-> FALSE]

\* the places of name="([^"]+)" in the tag whose attributes start at a
TagAttrs(html, a, name) == {r \in a..Len(html) : TagAttrAt(html, a, r, name).matched}

RECURSIVE ImgTry(_, _, _)

\* the src attribute taken and the outcome l of the rest of the pattern
ImgLink(html, q, rs, src, l) ==
    IF l.matched
    THEN [matched |-> TRUE, poster |-> src.value,
          title |-> l.title, info |-> l.info, end |-> l.end]
    ELSE ImgTry(html, q, rs \ {Greatest(rs)})

ImgSrc(html, q, rs, src) == ImgLink(html, q, rs, src, LinkFrom(html, src.end))

\* the src attributes rs of the <img at q, the last one first (the greedy
\* [^>]*), until the rest of the pattern matches behind one
ImgTry(html, q, rs) ==
    IF rs = {} THEN [matched |-> FALSE]
    ELSE ImgSrc(html, q, rs, TagAttrAt(html, q + 4, Greatest(rs), "src"))

RECURSIVE ImgFrom(_, _)

\* the outcome m of matching from the <img at index q
ImgOr(html, q, m) == IF m.matched THEN m ELSE ImgFrom(html, q + 1)

\* q the next place of <img, 0 when there is none
ImgNext(html, q) ==
    IF q = 0 THEN [matched |-> FALSE]
    ELSE ImgOr(html, q, ImgTry(html, q, TagAttrs(html, q + 4, "src")))

\* <img[^>]*src="([^"]+)" and everything behind it, from index p: the first
\* <img (the lazy [\s\S]*?) from which the rest matches
ImgFrom(html, p) == ImgNext(html, IndexFrom(html, "<img", p))

ItemOpen == "<div class=\"b-content__inline_item\""

RECURSIVE ItemTry(_, _, _)

\* the data-url attribute taken and the outcome m of the rest of the pattern
ItemImg(html, a, rs, url, m) ==
    IF m.matched
    THEN [matched |-> TRUE, url |-> url.value, poster |-> m.poster,
          title |-> m.title, info |-> m.info, end |-> m.end]
    ELSE ItemTry(html, a, rs \ {Greatest(rs)})

\* close the first ">" behind the data-url attribute (the [^>]*>)
ItemClose(html, a, rs, url, close) ==
    IF close > 0 THEN ItemImg(html, a, rs, url, ImgFrom(html, close + 1))
    ELSE ItemTry(html, a, rs \ {Greatest(rs)})

ItemUrl(html, a, rs, url) == ItemClose(html, a, rs, url, IndexFrom(html, ">", url.end))

\* the data-url attributes rs of the item whose attributes start at a, the
\* last one first, until the rest of the pattern matches behind one
ItemTry(html, a, rs) ==
    IF rs = {} THEN [matched |-> FALSE]
    ELSE ItemUrl(html, a, rs, TagAttrAt(html, a, Greatest(rs), "data-url"))

\* line 229: the match of itemRegex that starts at index i
ItemAt(html, i) ==
    IF StartsWithAt(html, i, ItemOpen)
    THEN ItemTry(html, i + Len(ItemOpen), TagAttrs(html, i + Len(ItemOpen), "data-url"))
    ELSE [matched |-> FALSE]

\* lines 239-240: info.match(/(\d{4})/), the first run of four digits
Year(info) ==
    LET hits == {i \in 1..(Len(info) - 3) : \A k \in 0..3 : IsDigit(Chr(info, i + k))}
    IN  IF hits = {} THEN Null ELSE Str(SubSeq(info, Least(hits), Least(hits) + 3))

\* the classification that takes every URL with "-sezon" for a series
ContentTypeBySezon(url) ==
    IF Includes(url, "/series/") \/ Includes(url, "-sezon") THEN "series" ELSE "movie"

\* lines 243-248
ContentType(url) ==
    IF Includes(url, "/series/") THEN "series"
    ELSE IF Includes(url, "/cartoons/")
    THEN (IF Includes(url, "-sezon") THEN "series" ELSE "movie")
    ELSE "movie"

\* lines 232-256: the entry of one match
SearchEntry(m) ==
    [url |-> m.url, title |-> Trim(m.title), type |-> ContentType(m.url),
     year |-> Year(Trim(m.info)), poster |-> m.poster]

RECURSIVE SearchResults(_, _)

\* the loop that stops behind the first match
SearchPushOnce(html, i, m) ==
    IF m.matched THEN <<SearchEntry(m)>> ELSE SearchResults(html, i + 1)

\* lines 231-257: one turn of the exec loop, m the outcome of matching at
\* index i; the next search resumes behind the match
SearchPush(html, i, m) ==
    IF m.matched THEN <<SearchEntry(m)>> \o SearchResults(html, m.end)
    ELSE SearchResults(html, i + 1)

\* i the next place of the item's opening tag, 0 when there is none
SearchNext(html, i) == IF i = 0 THEN <<>> ELSE SearchPush(html, i, ItemAt(html, i))

\* lines 231-259: the results of a page, scanned from index from
SearchResults(html, from) == SearchNext(html, IndexFrom(html, ItemOpen, from))

\* lines 214-219: issue the search fetch
searchContent_request ==
    /\ pc = "searchContent"
    /\ inflight' = inflight \cup {Len(sent) + 1}
    /\ sent' = Append(sent, [url |-> SearchUrl(query), method |-> "GET", body |-> ""])
    /\ pc' = "searchContent_fetch"
    /\ UNCHANGED <<stack, ret, retOf, thrown, ctVars, pvVars, gsVars, ciVars, scVars, hdVars,
                   ajax, page, search,
                   lifeVars, adminVars, pageVars>>

\* lines 217-223: the fetch settles; a rejection or a status outside 2xx throws
searchContent_fetch ==
    /\ pc = "searchContent_fetch"
    /\ IF search.kind = "reject" THEN Throw("fetch failed")
       ELSE IF ~Ok(search.status)
       THEN Throw("Search failed: " \o NatToString(search.status))
       ELSE pc' = "searchContent_text" /\ UNCHANGED <<stack, ret, retOf, thrown>>
    /\ inflight' = inflight \ {Len(sent)}
    /\ UNCHANGED <<ctVars, pvVars, gsVars, ciVars, scVars, hdVars, ajax, page, search, sent,
                   lifeVars, adminVars, pageVars>>

\* lines 225-259: response.text() settles; scrape the page and return
searchContent_text ==
    /\ pc = "searchContent_text"
    /\ Return("searchContent", SearchResults(search.html, 1))
    /\ UNCHANGED <<thrown, ctVars, pvVars, gsVars, ciVars, scVars, hdVars, netVars,
                   lifeVars, adminVars, pageVars>>

-----------------------------------------------------------------------------
(* The fetch handler of the worker.                                        *)

\* lines 265-269
corsHeaders ==
    <<<<"Access-Control-Allow-Origin", "*">>,
      <<"Access-Control-Allow-Methods", "GET, POST, OPTIONS">>,
      <<"Access-Control-Allow-Headers", "Content-Type">>>>

\* a JSON response whose headers are the content type alone
JsonResponseBare(status, body) ==
    [status |-> status, body |-> body,
     headers |-> <<<<"Content-Type", "application/json">>>>]

\* new Response(JSON.stringify(body), {status, headers: {...corsHeaders,
\* 'Content-Type': 'application/json'}}); the body is kept as the value that
\* is serialised
JsonResponse(status, body) ==
    [status |-> status, body |-> body,
     headers |-> Append(corsHeaders, <<"Content-Type", "application/json">>)]

\* url.searchParams.get(name): the first value of that name, else null
SearchParam(req, name) ==
    IF MapHas(req.params, name) THEN Str(MapGet(req.params, name)) ELSE Null

\* line 275: the runtime calls the handler for the next request. The
\* handler's locals and those of the functions it calls are new with each
\* call; the module-level TRASH_PATTERN, with its lastIndex, is the one the
\* earlier requests used. The request just answered goes to the log.
fetch_accept(next) ==
    /\ pc = "responded"
    /\ log' = Append(log, [request |-> request, page |-> page, ajax |-> ajax,
                           search |-> search, sent |-> sent, response |-> response])
    /\ request' = next.request
    /\ page' = next.page
    /\ ajax' = next.ajax
    /\ search' = next.search
    /\ response' = [status |-> 0]
    /\ sent' = <<>>
    /\ inflight' = {}
    /\ cancelled' = FALSE
    /\ pc' = "fetch"
    /\ stack' = <<>>
    /\ ret' = "" /\ retOf' = "" /\ thrown' = ""
    /\ trashString' = "" /\ cleaned' = "" /\ tried' = <<>>
    /\ decoded' = "" /\ parts' = <<>> /\ partIdx' = 0 /\ urls' = <<>>
    /\ contentId' = Undefined /\ translatorId' = Undefined
    /\ season' = Undefined /\ episode' = Undefined
    /\ data' = Undefined /\ videoUrls' = <<>>
    /\ pageUrl' = "" /\ query' = ""
    /\ UNCHANGED <<lastIndex, adminVars, pageVars>>

\* line 274: the client of the request goes away while the handler runs and
\* request.signal aborts. The handler never reads request.signal, and the
\* fetch calls of lines 93-95, 167-177 and 217-219 are given no signal, so
\* nothing of the computation changes.
request_cancel ==
    /\ pc \notin {"responded", "done", "threw"}
    /\ ~cancelled
    /\ cancelled' = TRUE
    /\ UNCHANGED <<ctlVars, ctVars, pvVars, gsVars, ciVars, scVars, hdVars, netVars, log,
                   adminVars, pageVars>>

\* lines 275-279: the CORS preflight
fetch_options ==
    /\ pc = "fetch"
    /\ request.method = "OPTIONS"
    /\ response' = [status |-> 200, body |-> Null, headers |-> corsHeaders]
    /\ pc' = "responded"
    /\ UNCHANGED <<stack, ret, retOf, thrown, ctVars, pvVars, gsVars, ciVars, scVars,
                   request, netVars, lifeVars, adminVars, pageVars>>

\* lines 286-290 and 365-368: the health check and the unknown path
fetch_static ==
    /\ pc = "fetch"
    /\ request.method # "OPTIONS"
    /\ request.path \notin {"/api/search", "/api/content", "/api/stream"}
    /\ response' = IF request.path \in {"/health", "/"}
                   THEN JsonResponse(200, [status |-> "ok", service |-> "alphy-worker"])
                   ELSE JsonResponse(404, [error |-> "Not found"])
    /\ pc' = "responded"
    /\ UNCHANGED <<stack, ret, retOf, thrown, ctVars, pvVars, gsVars, ciVars, scVars,
                   request, netVars, lifeVars, adminVars, pageVars>>

\* the search route that calls searchContent without looking at q
fetch_search_route_unchecked ==
    /\ pc = "fetch"
    /\ request.method # "OPTIONS"
    /\ request.path = "/api/search"
    /\ query' = IF Truthy(SearchParam(request, "q")) THEN SearchParam(request, "q").str
                ELSE "null"
    /\ pc' = "searchContent"
    /\ stack' = <<"fetch_search">>
    /\ UNCHANGED <<response, ret, retOf, thrown, ctVars, pvVars, gsVars, ciVars, request,
                   netVars, lifeVars, adminVars, pageVars>>

\* lines 293-302: /api/search, up to the call of searchContent
fetch_search_route ==
    /\ pc = "fetch"
    /\ request.method # "OPTIONS"
    /\ request.path = "/api/search"
    /\ IF ~Truthy(SearchParam(request, "q"))
       THEN /\ response' = JsonResponse(400, [error |-> "Missing query parameter"])
            /\ pc' = "responded"
            /\ UNCHANGED <<stack, query>>
       ELSE /\ query' = SearchParam(request, "q").str
            /\ pc' = "searchContent"
            /\ stack' = <<"fetch_search">>
            /\ UNCHANGED response
    /\ UNCHANGED <<ret, retOf, thrown, ctVars, pvVars, gsVars, ciVars, request, netVars,
                   lifeVars, adminVars, pageVars>>

\* lines 302-305: searchContent returned
fetch_search ==
    /\ pc = "fetch_search"
    /\ response' = JsonResponse(200, [query |-> query, results |-> ret])
    /\ pc' = "responded"
    /\ UNCHANGED <<stack, ret, retOf, thrown, ctVars, pvVars, gsVars, ciVars, scVars,
                   request, netVars, lifeVars, adminVars, pageVars>>

\* lines 309-318 and 330-344: /api/content and /api/stream, up to the call
\* of getContentInfo
fetch_content_route ==
    /\ pc = "fetch"
    /\ request.method # "OPTIONS"
    /\ request.path \in {"/api/content", "/api/stream"}
    /\ IF ~Truthy(SearchParam(request, "url"))
       THEN /\ response' = JsonResponse(400, [error |-> "Missing url parameter"])
            /\ pc' = "responded"
            /\ UNCHANGED <<stack, pageUrl>>
       ELSE /\ pageUrl' = SearchParam(request, "url").str
            /\ pc' = "getContentInfo"
            /\ stack' = <<IF request.path = "/api/content"
                          THEN "fetch_content" ELSE "fetch_info">>
            /\ UNCHANGED response
    /\ UNCHANGED <<ret, retOf, thrown, ctVars, pvVars, gsVars, scVars, request, netVars,
                   lifeVars, adminVars, pageVars>>

\* the content route that asks for the page a second time before it answers
fetch_content_again ==
    /\ pc = "fetch_content"
    /\ IF Len(sent) < 2
       THEN /\ pc' = "getContentInfo"
            /\ stack' = <<"fetch_content">>
            /\ UNCHANGED response
       ELSE /\ response' = JsonResponse(200, [url |-> pageUrl,
                                              translations |-> ret.translators,
                                              seasons |-> ret.seasons,
                                              is_series |-> ret.isSeries])
            /\ pc' = "responded"
            /\ UNCHANGED stack
    /\ UNCHANGED <<ret, retOf, thrown, ctVars, pvVars, gsVars, ciVars, scVars,
                   request, netVars, lifeVars, adminVars, pageVars>>

\* lines 318-326: getContentInfo returned to /api/content
fetch_content ==
    /\ pc = "fetch_content"
    /\ response' = JsonResponse(200, [url |-> pageUrl, translations |-> ret.translators,
                                      seasons |-> ret.seasons, is_series |-> ret.isSeries])
    /\ pc' = "responded"
    /\ UNCHANGED <<stack, ret, retOf, thrown, ctVars, pvVars, gsVars, ciVars, scVars,
                   request, netVars, lifeVars, adminVars, pageVars>>

\* season ? parseInt(season) : null (lines 356-357)
EpisodeParam(v) == IF Truthy(v) THEN parseInt(v.str) ELSE Null

\* the stream route that calls getStream whatever the content id
fetch_info_unchecked ==
    /\ pc = "fetch_info"
    /\ contentId' = ret.id
    /\ translatorId' = IF Truthy(SearchParam(request, "translator_id"))
                       THEN SearchParam(request, "translator_id")
                       ELSE ret.translatorId
    /\ season' = EpisodeParam(SearchParam(request, "season"))
    /\ episode' = EpisodeParam(SearchParam(request, "episode"))
    /\ pc' = "getStream"
    /\ stack' = <<"fetch_stream">>
    /\ UNCHANGED <<response, ret, retOf, thrown, ctVars, pvVars, data, videoUrls, ciVars,
                   scVars, request, netVars, lifeVars, adminVars, pageVars>>

\* the stream route that prefers the page's translator to the request's
fetch_info_page_first ==
    /\ pc = "fetch_info"
    /\ IF ~Truthy(ret.id)
       THEN /\ response' = JsonResponse(404, [error |-> "Could not find content ID"])
            /\ pc' = "responded"
            /\ UNCHANGED <<stack, contentId, translatorId, season, episode>>
       ELSE /\ contentId' = ret.id
            /\ translatorId' = IF Truthy(ret.translatorId)
                               THEN ret.translatorId
                               ELSE SearchParam(request, "translator_id")
            /\ season' = EpisodeParam(SearchParam(request, "season"))
            /\ episode' = EpisodeParam(SearchParam(request, "episode"))
            /\ pc' = "getStream"
            /\ stack' = <<"fetch_stream">>
            /\ UNCHANGED response
    /\ UNCHANGED <<ret, retOf, thrown, ctVars, pvVars, data, videoUrls, ciVars, scVars,
                   request, netVars, lifeVars, adminVars, pageVars>>

\* lines 344-358: getContentInfo returned to /api/stream; without a content
\* id the answer is 404, otherwise getStream is called
fetch_info ==
    /\ pc = "fetch_info"
    /\ IF ~Truthy(ret.id)
       THEN /\ response' = JsonResponse(404, [error |-> "Could not find content ID"])
            /\ pc' = "responded"
            /\ UNCHANGED <<stack, contentId, translatorId, season, episode>>
       ELSE /\ contentId' = ret.id
            /\ translatorId' = IF Truthy(SearchParam(request, "translator_id"))
                               THEN SearchParam(request, "translator_id")
                               ELSE ret.translatorId
            /\ season' = EpisodeParam(SearchParam(request, "season"))
            /\ episode' = EpisodeParam(SearchParam(request, "episode"))
            /\ pc' = "getStream"
            /\ stack' = <<"fetch_stream">>
            /\ UNCHANGED response
    /\ UNCHANGED <<ret, retOf, thrown, ctVars, pvVars, data, videoUrls, ciVars, scVars,
                   request, netVars, lifeVars, adminVars, pageVars>>

\* lines 360-362: getStream returned
fetch_stream ==
    /\ pc = "fetch_stream"
    /\ response' = JsonResponse(200, ret)
    /\ pc' = "responded"
    /\ UNCHANGED <<stack, ret, retOf, thrown, ctVars, pvVars, gsVars, ciVars, scVars,
                   request, netVars, lifeVars, adminVars, pageVars>>

\* the catch clause that starts the request over once before it gives up
fetch_catch_retry ==
    /\ pc = "fetch_catch"
    /\ IF Len(sent) < 2
       THEN pc' = "fetch" /\ UNCHANGED response
       ELSE pc' = "responded" /\ response' = JsonResponse(500, [error |-> thrown])
    /\ UNCHANGED <<stack, ret, retOf, thrown, ctVars, pvVars, gsVars, ciVars, scVars,
                   request, netVars, lifeVars, adminVars, pageVars>>

\* lines 370-376: the catch clause
fetch_catch ==
    /\ pc = "fetch_catch"
    /\ response' = JsonResponse(500, [error |-> thrown])
    /\ pc' = "responded"
    /\ UNCHANGED <<stack, ret, retOf, thrown, ctVars, pvVars, gsVars, ciVars, scVars,
                   request, netVars, lifeVars, adminVars, pageVars>>

-----------------------------------------------------------------------------
(* The tokens the upstream hands out: the base64 text of a clear string    *)
(* with junk markers put between its characters, optionally behind "#h".   *)

MaxJunk == 2

\* one marker of each alternative of the pattern: "//_//" and the base64
\* texts of the junk strings "@@", "!!!" and "^^^"
Markers == {"//_//", "QEA=", "ISEh", "Xl5e"}

ClearStrings == {"a", "ab", "abc", "???", "!@", "!@#"}

\* every way to put at most k markers into s, left to right; a marker may
\* directly follow another one
RECURSIVE Junked(_, _)
Junked(s, k) ==
    IF k = 0 THEN {s}
    ELSE {s} \cup UNION {
             {SubSeq(s, 1, p) \o m \o r : r \in Junked(SubSeq(s, p + 1, Len(s)), k - 1)}
             : <<p, m>> \in (0..Len(s)) \X Markers}

Obfuscated == [s \in ClearStrings |->
                  LET J == Junked(Btoa(s), MaxJunk) IN J \cup {"#h" \o t : t \in J}]

\* tokens that are no obfuscation of a clear string
RawTokens == {"", "YQ", "QUI", "QUJDR", "Q*Jj", "YW//_//I", "#hQEA=YWJ"}

TrashTokens == RawTokens \cup UNION {Obfuscated[s] : s \in ClearStrings}

\* parseVideoUrls and getStream before they are called
IdleParse == decoded = "" /\ parts = <<>> /\ partIdx = 0 /\ urls = <<>>

IdleStream ==
    /\ contentId = Undefined /\ translatorId = Undefined
    /\ season = Undefined /\ episode = Undefined
    /\ data = Undefined /\ videoUrls = <<>>
    /\ ajax = [kind |-> "none"] /\ sent = <<>> /\ inflight = {}

IdleContent == pageUrl = "" /\ page = [kind |-> "none"]

IdleSearch == query = "" /\ search = [kind |-> "none"]

IdleHandler == request = [method |-> "none"] /\ response = [status |-> 0]

\* no request was handled before, and the client has not gone away
IdleLife == cancelled = FALSE /\ log = <<>>

\* no grid drawn
IdleGrid ==
    /\ gridItems = <<>>
    /\ gridRows = 1
    /\ gridMode = "scroll"
    /\ cards = <<>>
    /\ drawn = FALSE
    /\ click = <<>>

\* continue.js, line 10: nothing stored, nothing called
IdleHistory ==
    /\ history = <<>>
    /\ clock = 0
    /\ call = [op |-> ""]
    /\ steps = 0

\* continue.js, lines 429-438: the state object as the script creates it;
\* the indicator is off and nothing is rendered
IdlePanel ==
    /\ panel = [item |-> Null, requestToken |-> 0, cache |-> {}, loading |-> FALSE,
                rendered |-> <<>>]
    /\ fetches = <<>>

IdlePage == IdleGrid /\ IdleHistory /\ IdlePanel

\* admin-lists.js, lines 9-21: the state object as the script creates it
\* (saveTimer 0 stands for null), nothing stored, nothing under way
IdleAdmin ==
    /\ state = [lists |-> <<>>, revision |-> 0, updatedAt |-> Null, isAdmin |-> FALSE,
                saveTimer |-> 0, saveInFlight |-> FALSE, saveQueued |-> FALSE,
                dirty |-> FALSE]
    /\ badge = [mode |-> "", text |-> ""]
    /\ backup = Null
    /\ now = 0
    /\ timers = {}
    /\ puts = <<>>
    /\ runs = <<>>
    /\ loads = <<>>
    /\ calls = 0
    /\ boot = "new"
    /\ controls = FALSE

\* clearTrash(token) called on its own
InitTrash ==
    /\ pc = "clearTrash"
    /\ stack = <<>>
    /\ ret = ""
    /\ retOf = ""
    /\ thrown = ""
    /\ trashString \in TrashTokens
    /\ cleaned = ""
    /\ tried = <<>>
    /\ lastIndex = 0
    /\ IdleParse
    /\ IdleStream
    /\ IdleContent
    /\ IdleSearch
    /\ IdleHandler
    /\ IdleLife
    /\ IdleAdmin
    /\ IdlePage

NextTrash == clearTrash_replace \/ clearTrash_try \/ clearTrash_retry

SpecTrash == InitTrash /\ [][NextTrash]_vars

\* Btoa(s) holds no match of TRASH_PATTERN
JunkFree(t) == \A i \in 1..Len(t) : TRASH_PATTERN(t, i) = 0

clearTrashReturned == pc = "done" /\ retOf = "clearTrash"

C8_DecodeFallback ==
    /\ pc # "threw"
    /\ thrown = ""
    /\ clearTrashReturned =>
          /\ cleaned = ReplaceTrash(trashString)
          /\ IF AtobOk(cleaned \o "==")
             THEN tried = <<cleaned \o "==">> /\ ret = Atob(cleaned \o "==")
             ELSE /\ tried = <<cleaned \o "==", cleaned>>
                  /\ AtobOk(cleaned) => ret = Atob(cleaned)
                  /\ ~AtobOk(cleaned) => ret = ""

\* C8 witnesses: a return after both decodes failed; the two other outcomes
\* are C8_FirstDecode and C8_SecondDecode.
C8_Witness ==
    /\ clearTrashReturned
    /\ tried = <<"QUJDR==", "QUJDR">>
    /\ ~AtobOk("QUJDR==") /\ ~AtobOk("QUJDR")
    /\ ret = ""

C8_FirstDecode == clearTrashReturned /\ tried = <<"YQ==">> /\ ret = "a"

C8_SecondDecode == clearTrashReturned /\ tried = <<"QUI==", "QUI">> /\ ret = "AB"

-----------------------------------------------------------------------------
(* getStream called on its own, against a scripted upstream.               *)

MaxParts == 3

\* segments of a decoded payload: plain ones, one whose first alternative is
\* no playlist, one without a playlist, one with a non-numeric label and two
\* playlists, one that is not of the [quality]url form
Segments == <<"[720]a.m3u8", "[1080]b.m3u8", "[360]c.m3u8", "[720p]d.mp4 or e.m3u8",
              "[720]f.mp4", "[auto]g.m3u8 or h.m3u8", "x.m3u8">>

RECURSIVE Payloads(_)
Payloads(k) ==
    IF k = 0 THEN {""}
    ELSE Payloads(k - 1)
         \cup {Segments[i] : i \in 1..Len(Segments)}
         \cup {p \o "," \o Segments[i] :
                  p \in Payloads(k - 1) \ {""}, i \in 1..Len(Segments)}

\* the token of a payload: "#h", then its base64 text with two adjacent
\* markers after the fourth character
Obfuscate(payload) ==
    LET b == Btoa(payload)
    IN  IF Len(b) < 4 THEN "#h" \o b
        ELSE "#h" \o SubSeq(b, 1, 4) \o "//_//QEA=" \o SubSeq(b, 5, Len(b))

Languages == Obj(<<<<"off", Str("")>>, <<"ru", Str("Russian")>>, <<"en", Str("English")>>>>)

\* language mappings: "off" first, in the middle, last and missing; empty
LanguageMaps ==
    {Languages,
     Obj(<<<<"ru", Str("Russian")>>, <<"off", Str("")>>, <<"en", Str("English")>>>>),
     Obj(<<<<"uk", Str("Ukrainian")>>, <<"ru", Str("Russian")>>, <<"off", Str("Off")>>>>),
     Obj(<<<<"en", Str("English")>>, <<"ru", Str("Russian")>>>>),
     Obj(<<<<"off", Str("")>>>>),
     Obj(<<>>)}

Envelope(success, message, url, subtitle, subtitleLns) ==
    Obj(<<<<"success", success>>, <<"message", message>>, <<"url", url>>,
          <<"subtitle", subtitle>>, <<"subtitle_lns", subtitleLns>>>>)

Reply(status, body) == [kind |-> "response", status |-> status, body |-> body]

\* 2xx answers that carry a payload, without and with subtitles
PayloadReplies ==
    {Reply(200, Envelope(Bool(TRUE), Str(""), Str(Obfuscate(p)), Bool(FALSE), Bool(FALSE))) :
        p \in Payloads(MaxParts)}
    \cup {Reply(200, Envelope(Bool(TRUE), Str(""), Str(Obfuscate(p)), sub, lns)) :
        p \in Payloads(1), sub \in {Str("s.vtt"), Str(""), Bool(FALSE)}, lns \in LanguageMaps}

\* other url fields: absent or falsy, undecodable, decodable without a
\* playlist, and not a string
OddUrlReplies ==
    {Reply(200, Envelope(Bool(TRUE), Str(""), u, Bool(FALSE), Bool(FALSE))) :
        u \in {Bool(FALSE), Null, Str(""), Str("QUJDR"), Str("Q*Jj"), Str(Btoa("abc")),
               Num(123), Bool(TRUE)}}
    \cup {Reply(200, Obj(<<<<"success", Bool(TRUE)>>>>)),
          Reply(200, Obj(<<<<"url", Str(Obfuscate(Segments[1]))>>>>)),
          Reply(200, Obj(<<<<"url", Str(Obfuscate(Segments[1]))>>, <<"subtitle", Str("s.vtt")>>>>)),
          Reply(200, Obj(<<<<"url", Str(Obfuscate(Segments[1]))>>, <<"subtitle_lns", Languages>>>>)),
          Reply(200, Obj(<<<<"message", Str("Blocked")>>>>)),
          Reply(200, Obj(<<>>)),
          Reply(204, Obj(<<<<"url", Num(123)>>>>))}

\* failures: no answer, a status outside 2xx, no JSON, JSON null, and the
\* envelope's failure flag with and without a message
FailureReplies ==
    {[kind |-> "reject"]}
    \cup {Reply(st, Envelope(Bool(TRUE), Str(""), Str(Obfuscate(Segments[1])),
                             Bool(FALSE), Bool(FALSE))) : st \in {199, 300, 403, 500}}
    \cup {Reply(200, [t |-> "notjson"]), Reply(200, Null)}
    \cup {Reply(200, Envelope(f, m, Str(Obfuscate(Segments[1])), Bool(FALSE), Bool(FALSE))) :
             f \in {Bool(FALSE), Null, Num(0), Str("")}, m \in {Str("Blocked"), Str(""), Undefined}}
    \cup {Reply(200, Obj(<<<<"success", Bool(FALSE)>>>>))}

\* season and episode as a caller may pass them
EpisodeArgs == {Undefined, Null, Num(0), Num(1), NaN}

InitStreamWith(s, e, reply) ==
    /\ pc = "getStream"
    /\ stack = <<>>
    /\ ret = ""
    /\ retOf = ""
    /\ thrown = ""
    /\ trashString = "" /\ cleaned = "" /\ tried = <<>> /\ lastIndex = 0
    /\ IdleParse
    /\ contentId = Str("123") /\ translatorId = Str("4")
    /\ season = s /\ episode = e
    /\ data = Undefined /\ videoUrls = <<>>
    /\ ajax = reply /\ sent = <<>> /\ inflight = {}
    /\ IdleContent
    /\ IdleSearch
    /\ IdleHandler
    /\ IdleLife
    /\ IdleAdmin
    /\ IdlePage

InitStream ==
    \/ \E reply \in PayloadReplies \cup OddUrlReplies \cup FailureReplies :
           InitStreamWith(Null, Null, reply)
    \/ \E s \in EpisodeArgs, e \in EpisodeArgs :
           InitStreamWith(s, e, Reply(200, Envelope(Bool(TRUE), Str(""),
                                  Str(Obfuscate(Segments[1])), Bool(FALSE), Bool(FALSE))))

NextStream ==
    \/ getStream_request
    \/ getStream_fetch
    \/ getStream_json
    \/ clearTrash_replace
    \/ clearTrash_try
    \/ clearTrash_retry
    \/ parseVideoUrls_split
    \/ parseVideoUrls_part
    \/ parseVideoUrls_return
    \/ getStream_parsed
    \/ getStream_result

SpecStream == InitStream /\ [][NextStream]_vars

getStreamReturned == pc = "done" /\ retOf = "getStream"

\* the keys of an object, as a set
KeySet(m) == {m[i][1] : i \in 1..Len(m)}

\* the integer a quality label stands for: parseInt of it, 0 when that is NaN
LabelValue(label) == IF parseInt(label) = NaN THEN 0 ELSE parseInt(label).num

\* C1: in every StreamResult stream_url is all_urls[qualities[last]] when
\* qualities is non-empty and "" otherwise, and qualities is exactly the key
\* set of all_urls.
C1_StreamUrlIsLastQuality ==
    getStreamReturned =>
        LET q == ret.qualities
        IN  /\ q # <<>> => /\ MapHas(ret.all_urls, q[Len(q)])
                           /\ ret.stream_url = MapGet(ret.all_urls, q[Len(q)])
            /\ q = <<>> => ret.stream_url = ""
            /\ {q[i] : i \in 1..Len(q)} = KeySet(ret.all_urls)
            /\ Len(q) = Len(ret.all_urls)

\* C1 witness: a result with three qualities whose stream_url is the url of
\* the last of them, which is not the first one.
C1_Witness ==
    /\ getStreamReturned
    /\ ret.qualities = <<"360", "720", "1080">>
    /\ ret.stream_url = "b.m3u8"
    /\ MapGet(ret.all_urls, "1080") = "b.m3u8"
    /\ MapGet(ret.all_urls, "360") = "c.m3u8"

\* C2: qualities is in ascending order of the integer parsed from each label
\* (0 for a non-numeric label) and stream_url is the url of a label of
\* maximal value; {"720":"a.m3u8","1080":"b.m3u8","360":"c.m3u8"} gives
\* "b.m3u8".
C2_AscendingAndBest ==
    getStreamReturned =>
        LET q == ret.qualities
            m == ret.all_urls
        IN  /\ \A i, j \in 1..Len(q) : i < j => LabelValue(q[i]) <= LabelValue(q[j])
            /\ q # <<>> =>
                  \E k \in KeySet(m) :
                      /\ ret.stream_url = MapGet(m, k)
                      /\ \A k2 \in KeySet(m) : LabelValue(k2) <= LabelValue(k)
            /\ {m[i] : i \in 1..Len(m)} = {<<"720", "a.m3u8">>, <<"1080", "b.m3u8">>,
                                           <<"360", "c.m3u8">>}
                  => ret.stream_url = "b.m3u8"

\* C2 witness: the example payload, in the order 720, 1080, 360, with a
\* label of value 0 added in another run.
C2_Witness ==
    /\ getStreamReturned
    /\ decoded = "[720]a.m3u8,[1080]b.m3u8,[360]c.m3u8"
    /\ ret.qualities = <<"360", "720", "1080">>
    /\ ret.stream_url = "b.m3u8"

C2_WitnessNonNumeric ==
    /\ getStreamReturned
    /\ decoded = "[1080]b.m3u8,[auto]g.m3u8 or h.m3u8,[360]c.m3u8"
    /\ ret.qualities = <<"auto", "360", "1080">>

\* a segment of the form [q]rest: "[", a non-empty label without "]", "]"
\* and a non-empty rest
C3_Form(p) ==
    \E j \in 3..(Len(p) - 1) :
        Chr(p, 1) = "[" /\ Chr(p, j) = "]" /\ \A i \in 2..(j - 1) : Chr(p, i) # "]"

C3_Close(p) == CHOOSE j \in 3..(Len(p) - 1) :
                   Chr(p, j) = "]" /\ \A i \in 2..(j - 1) : Chr(p, i) # "]"

C3_Quality(p) == SubSeq(p, 2, C3_Close(p) - 1)

C3_Alternatives(p) == Split(SubSeq(p, C3_Close(p) + 1, Len(p)), " or ")

C3_Playable(p) ==
    C3_Form(p) /\ \E a \in 1..Len(C3_Alternatives(p)) : EndsWith(C3_Alternatives(p)[a], ".m3u8")

C3_Choice(p) ==
    LET alts == C3_Alternatives(p)
    IN  alts[CHOOSE a \in 1..Len(alts) :
                 /\ EndsWith(alts[a], ".m3u8")
                 /\ \A b \in 1..(a - 1) : ~EndsWith(alts[b], ".m3u8")]

RECURSIVE C3_Join(_)
C3_Join(ps) ==
    IF Len(ps) <= 1 THEN (IF ps = <<>> THEN "" ELSE ps[1])
    ELSE ps[1] \o "," \o C3_Join(Tail(ps))

\* C3: the parts are the segments of the decoded payload between commas;
\* after the first n parts the object maps the label of every [q]... segment
\* with an alternative ending in ".m3u8" to the first such alternative (of
\* the last such segment, when a label repeats) and has no other entry; no
\* error is raised once parsing has begun.
C3_FirstPlayablePerSegment ==
    /\ pc = "threw" => partIdx = 0
    /\ partIdx >= 1 =>
          LET seen == 1..(partIdx - 1)
          IN  /\ C3_Join(parts) = decoded
              /\ \A n \in 1..Len(parts) : ~Includes(parts[n], ",")
              /\ \A i \in 1..Len(urls) :
                     \E n \in seen : C3_Playable(parts[n]) /\ C3_Quality(parts[n]) = urls[i][1]
              /\ \A n \in seen :
                     C3_Playable(parts[n]) =>
                         /\ MapHas(urls, C3_Quality(parts[n]))
                         /\ (\A n2 \in seen :
                                 (n2 > n /\ C3_Playable(parts[n2]))
                                     => C3_Quality(parts[n2]) # C3_Quality(parts[n]))
                                => MapGet(urls, C3_Quality(parts[n])) = C3_Choice(parts[n])

\* C3 witness: the loop has finished a payload with a segment whose second
\* alternative is the first playlist, a segment with two playlists, one
\* without a playlist and one that is not of the form.
C3_Witness ==
    /\ pc = "parseVideoUrls_part"
    /\ parts = <<"[720p]d.mp4 or e.m3u8", "[auto]g.m3u8 or h.m3u8", "x.m3u8">>
    /\ partIdx = 4
    /\ urls = <<<<"720p", "e.m3u8">>, <<"auto", "g.m3u8">>>>

C3_WitnessOmitted ==
    /\ pc = "parseVideoUrls_part"
    /\ parts = <<"[720]f.mp4", "x.m3u8">>
    /\ partIdx = 3
    /\ urls = <<>>

\* the fields of the body of the POST
C4_Has(fields, field) == \E i \in 1..Len(fields) : fields[i] = field

C4_HasNamed(fields, name) ==
    \E i \in 1..Len(fields) : StartsWithAt(fields[i], 1, name \o "=")

\* C4: the POST carries action=get_stream with the season and episode fields
\* exactly when season and episode are both non-null; otherwise it carries
\* action=get_movie and neither field, even if one of the two was given.
C4_ActionBySeasonAndEpisode ==
    sent # <<>> =>
        LET fields == Split(sent[1].body, "&")
        IN  /\ Len(sent) = 1
            /\ sent[1].method = "POST"
            /\ C4_Has(fields, "id=123") /\ C4_Has(fields, "translator_id=4")
            /\ IF season # Null /\ episode # Null
               THEN /\ C4_Has(fields, "action=get_stream")
                    /\ ~C4_Has(fields, "action=get_movie")
                    /\ C4_Has(fields, "season=" \o JSToString(season))
                    /\ C4_Has(fields, "episode=" \o JSToString(episode))
               ELSE /\ C4_Has(fields, "action=get_movie")
                    /\ ~C4_Has(fields, "action=get_stream")
                    /\ ~C4_HasNamed(fields, "season")
                    /\ ~C4_HasNamed(fields, "episode")

\* C4 witness: a season without an episode is sent as a movie request.
C4_Witness ==
    /\ sent # <<>>
    /\ season = Num(1) /\ episode = Null
    /\ sent[1].body = "id=123&translator_id=4&action=get_movie"

C4_WitnessSeries ==
    /\ sent # <<>>
    /\ season = Num(1) /\ episode = Num(0)
    /\ sent[1].body = "id=123&translator_id=4&action=get_stream&season=1&episode=0"

\* the envelope carries the failure flag: a success field, present and falsy
C5_Flagged(body) ==
    /\ body.t = "object"
    /\ MapHas(body.entries, "success")
    /\ ~Truthy(MapGet(body.entries, "success"))

C5_Message(body) ==
    IF MapHas(body.entries, "message") /\ Truthy(MapGet(body.entries, "message"))
    THEN MapGet(body.entries, "message").str
    ELSE "AJAX request failed"

\* C5: getStream returns no StreamResult when the call fails or answers
\* outside 2xx, and when the envelope carries the failure flag; the error
\* then carries the envelope's message (the default text when it has none).
\* An envelope without a success field is not rejected.
C5_FailuresOfGetStream ==
    /\ (ajax.kind = "reject" \/ (ajax.kind = "response" /\ ~Ok(ajax.status))) =>
          /\ ~getStreamReturned
          /\ pc \notin {"getStream", "getStream_fetch"} => pc = "threw"
    /\ (ajax.kind = "response" /\ Ok(ajax.status) /\ C5_Flagged(ajax.body)) =>
          /\ ~getStreamReturned
          /\ pc \notin {"getStream", "getStream_fetch", "getStream_json"} =>
                pc = "threw" /\ thrown = C5_Message(ajax.body)
    /\ (/\ ajax.kind = "response" /\ Ok(ajax.status)
        /\ ajax.body.t = "object" /\ ~MapHas(ajax.body.entries, "success")
        /\ pc = "threw") =>
          thrown \notin {"AJAX request failed", C5_Message(ajax.body)}

\* C5 witness: the failure flag with the message "Blocked".
C5_Witness ==
    /\ pc = "threw"
    /\ thrown = "Blocked"
    /\ ajax.kind = "response" /\ ajax.status = 200
    /\ GetProp(ajax.body, "success") = Bool(FALSE)

C5_WitnessStatus == pc = "threw" /\ thrown = "AJAX request failed: 403"

C5_WitnessUnflagged ==
    /\ getStreamReturned
    /\ ajax.body = Obj(<<<<"message", Str("Blocked")>>>>)

\* C6 (as claimed): for every 2xx JSON envelope without the failure flag
\* getStream returns a result and raises nothing; an absent, undecodable or
\* playlist-free url field gives stream_url "", no qualities and no urls; an
\* absent subtitle or subtitle_lns gives no subtitles.
C6_NeverRaisesOnPayload ==
    (/\ ajax.kind = "response" /\ Ok(ajax.status)
     /\ ajax.body.t = "object" /\ ~C5_Flagged(ajax.body)) =>
        /\ pc # "threw"
        /\ getStreamReturned =>
              /\ (\/ ~MapHas(ajax.body.entries, "url")
                  \/ (Len(tried) = 2 /\ ~AtobOk(cleaned))
                  \/ (partIdx >= 1 /\ \A n \in 1..Len(parts) : ~C3_Playable(parts[n])))
                    => /\ ret.stream_url = ""
                       /\ ret.qualities = <<>>
                       /\ ret.all_urls = <<>>
              /\ (~MapHas(ajax.body.entries, "subtitle")
                  \/ ~MapHas(ajax.body.entries, "subtitle_lns"))
                    => ret.subtitles = <<>>

\* the order in which the labels were met in the payload is the creation
\* order of the properties of all_urls
C9_Position(q, label) == CHOOSE i \in 1..Len(q) : q[i] = label

\* C9 (as claimed): of two labels with the same integer value the one met
\* later in the payload comes later in qualities, and if that value is the
\* greatest, stream_url is the url of the label met last among them.
C9_LaterLabelWins ==
    getStreamReturned =>
        LET m == ret.all_urls
            q == ret.qualities
        IN  \A i, j \in 1..Len(m) :
                (i < j /\ LabelValue(m[i][1]) = LabelValue(m[j][1])) =>
                    /\ C9_Position(q, m[i][1]) < C9_Position(q, m[j][1])
                    /\ (/\ \A n \in 1..Len(m) : LabelValue(m[n][1]) <= LabelValue(m[j][1])
                        /\ \A n \in (j + 1)..Len(m) : LabelValue(m[n][1]) # LabelValue(m[j][1]))
                          => ret.stream_url = m[j][2]

-----------------------------------------------------------------------------
(* getContentInfo called on its own, against scripted pages.               *)

MaxFragments == 3

\* an episode item of a series page
SeasonItem(s, e) ==
    "<li data-season_id=\"" \o s \o "\" data-episode_id=\"" \o e \o "\">E" \o e \o "</li>"

\* pieces of a content page: content ids, an id attribute without digits,
\* translators, an episode of a season, the player script
Fragments == <<"<a data-id=\"123\">", "<a data-id=\"77\">", "<a data-id=\"\">",
               "<li data-translator_id=\"4\">Dub</li>",
               "<li data-translator_id=\"56\" class=\"b\"> Sub </li>",
               SeasonItem("10", "3"),
               "<script>sof.tv</script>">>

RECURSIVE Pages(_)
Pages(k) ==
    IF k = 0 THEN {""}
    ELSE Pages(k - 1) \cup {h \o Fragments[i] : h \in Pages(k - 1), i \in 1..Len(Fragments)}

\* the episode items the scripted series pages are made of: episodes out of
\* order, one written with a leading zero, a second season
SeasonItems == <<[season |-> "10", episode |-> "3", number |-> 3],
                 [season |-> "10", episode |-> "1", number |-> 1],
                 [season |-> "10", episode |-> "03", number |-> 3],
                 [season |-> "2", episode |-> "7", number |-> 7]>>

\* a season tab: a season marker without an episode
SeasonTab == "<li data-season_id=\"5\">S5</li>"

RECURSIVE SeasonPages(_)
SeasonPages(k) ==
    IF k = 0 THEN {""}
    ELSE SeasonPages(k - 1)
         \cup {h \o SeasonItem(SeasonItems[i].season, SeasonItems[i].episode) :
                   h \in SeasonPages(k - 1), i \in 1..Len(SeasonItems)}
         \cup {h \o SeasonTab : h \in SeasonPages(k - 1)}

PageUrls == {"https://hdrezka.me/films/1-a.html", "https://hdrezka.me/series/2-b.html"}

PageReply(status, html) == [kind |-> "response", status |-> status, html |-> html]

PageReplies ==
    {PageReply(200, h) : h \in Pages(MaxFragments)}
    \cup {PageReply(200, h) : h \in SeasonPages(MaxFragments)}
    \cup {PageReply(st, Fragments[1]) : st \in {404, 503}}
    \cup {[kind |-> "reject"]}

InitContent ==
    /\ pc = "getContentInfo"
    /\ stack = <<>>
    /\ ret = ""
    /\ retOf = ""
    /\ thrown = ""
    /\ trashString = "" /\ cleaned = "" /\ tried = <<>> /\ lastIndex = 0
    /\ IdleParse
    /\ IdleStream
    /\ IdleSearch
    /\ IdleHandler
    /\ IdleLife
    /\ IdleAdmin
    /\ IdlePage
    /\ pageUrl \in PageUrls
    /\ page \in PageReplies

NextContent == getContentInfo_request \/ getContentInfo_fetch \/ getContentInfo_text

SpecContent == InitContent /\ [][NextContent]_vars

getContentInfoReturned == pc = "done" /\ retOf = "getContentInfo"

\* the text <digits>" stands at index j of the page, for some digits
C10_DigitsAt(html, j, digits) ==
    /\ digits # ""
    /\ \A i \in 1..Len(digits) : IsDigit(Chr(digits, i))
    /\ StartsWithAt(html, j, digits \o "\"")

\* the lengths n for which n digits and a closing quote follow name=" at
\* index i of the page
C10_Lengths(html, i, name) ==
    IF StartsWithAt(html, i, name \o "=\"")
    THEN {n \in 1..(Len(html) - i) :
              /\ i + Len(name) + 1 + n <= Len(html)
              /\ C10_DigitsAt(html, i + Len(name) + 2,
                              SubSeq(html, i + Len(name) + 2, i + Len(name) + 1 + n))}
    ELSE {}

C10_Occurs(html, name) == \E i \in 1..Len(html) : C10_Lengths(html, i, name) # {}

\* the digits of the first occurrence of name="<digits>" in the page
C10_First(html, name) ==
    LET first == Least({i \in 1..Len(html) : C10_Lengths(html, i, name) # {}})
    IN  SubSeq(html, first + Len(name) + 2,
               first + Len(name) + 1 + Least(C10_Lengths(html, first, name)))

\* C10 (as amended): a 2xx page gives id and translatorId the digits of the
\* first data-id="..." and data-translator_id="..." of its HTML, and null for
\* a marker the HTML lacks; a page with neither marker raises no error and
\* gives isSeries false unless the HTML has "sof.tv" or "data-season_id" or
\* the URL has "/series/".
C10_IdsOfPage ==
    /\ (page.kind = "response" /\ Ok(page.status)) => pc # "threw"
    /\ getContentInfoReturned =>
          /\ IF C10_Occurs(page.html, "data-id")
             THEN ret.id = Str(C10_First(page.html, "data-id"))
             ELSE ret.id = Null
          /\ IF C10_Occurs(page.html, "data-translator_id")
             THEN ret.translatorId = Str(C10_First(page.html, "data-translator_id"))
             ELSE ret.translatorId = Null
          /\ (~C10_Occurs(page.html, "data-id")
              /\ ~C10_Occurs(page.html, "data-translator_id")
              /\ ~Includes(page.html, "sof.tv")
              /\ ~Includes(page.html, "data-season_id")
              /\ ~Includes(pageUrl, "/series/"))
                => ret.isSeries = FALSE

\* C10 witness: a page with two content ids and both translators; the first
\* of each is returned.
C10_Witness ==
    /\ getContentInfoReturned
    /\ page.html = "<a data-id=\"123\">" \o "<li data-translator_id=\"4\">Dub</li>"
                   \o "<a data-id=\"77\">"
    /\ ret.id = Str("123")
    /\ ret.translatorId = Str("4")

C10_WitnessNeither ==
    /\ getContentInfoReturned
    /\ page.html = "<a data-id=\"\">"
    /\ pageUrl = "https://hdrezka.me/films/1-a.html"
    /\ ret.id = Null /\ ret.translatorId = Null /\ ret.isSeries = FALSE

\* C10 (as claimed): with data-id="123" and data-translator_id="4" first in
\* the page, id is "123" and translatorId "4"; a page with neither marker
\* gives id null, translatorId null and isSeries false, without an error.
C10_NeitherMarkerIsNoSeries ==
    /\ (page.kind = "response" /\ Ok(page.status)) => pc # "threw"
    /\ getContentInfoReturned =>
          /\ (C10_Occurs(page.html, "data-id")
              /\ C10_First(page.html, "data-id") = "123"
              /\ C10_Occurs(page.html, "data-translator_id")
              /\ C10_First(page.html, "data-translator_id") = "4")
                => ret.id = Str("123") /\ ret.translatorId = Str("4")
          /\ (~C10_Occurs(page.html, "data-id")
              /\ ~C10_Occurs(page.html, "data-translator_id"))
                => ret.id = Null /\ ret.translatorId = Null /\ ret.isSeries = FALSE

-----------------------------------------------------------------------------
C11_Failed == page.kind = "reject" \/ ~Ok(page.status)

\* C11: getContentInfo raises only when the page fetch rejects or answers
\* with a status outside 2xx; for every 2xx page, whatever its HTML, it
\* returns a ContentInfo: id and translatorId a string or null, translators
\* a sequence and seasons a map, both empty for an empty page.
C11_RaisesOnlyOnFetchFailure ==
    /\ pc = "threw" => C11_Failed
    /\ pc = "done" => ~C11_Failed /\ retOf = "getContentInfo"
    /\ getContentInfoReturned =>
          /\ ret.id = Null \/ IsString(ret.id)
          /\ ret.translatorId = Null \/ IsString(ret.translatorId)
          /\ ret.isSeries \in BOOLEAN
          /\ ~Includes(page.html, "data-id=") => ret.id = Null
          /\ ~Includes(page.html, "data-translator_id=") =>
                ret.translatorId = Null /\ ret.translators = <<>>
          /\ ~Includes(page.html, "data-episode_id=") => ret.seasons = <<>>

\* C11 witness: a 2xx page without any marker is scraped to nulls and empty
\* collections.
C11_Witness ==
    /\ getContentInfoReturned
    /\ page.html = "<a data-id=\"\">"
    /\ ret.id = Null /\ ret.translatorId = Null
    /\ ret.translators = <<>> /\ ret.seasons = <<>>

C11_WitnessStatus == pc = "threw" /\ thrown = "Failed to fetch page: 404"

C11_WitnessRejected == pc = "threw" /\ page.kind = "reject"

C12_Has(text, marker) ==
    \E i \in 1..Len(text) :
        i + Len(marker) - 1 <= Len(text) /\ SubSeq(text, i, i + Len(marker) - 1) = marker

\* C12: isSeries is true when the HTML has the player-script marker "sof.tv"
\* or "data-season_id", or the URL has "/series/", and false when none of
\* the three holds.
C12_IsSeriesByThreeMarkers ==
    getContentInfoReturned =>
        (ret.isSeries <=> \/ C12_Has(page.html, "sof.tv")
                          \/ C12_Has(page.html, "data-season_id")
                          \/ C12_Has(pageUrl, "/series/"))

\* C12 witness: the URL alone makes a page a series.
C12_Witness ==
    /\ getContentInfoReturned
    /\ page.html = "<a data-id=\"123\">"
    /\ pageUrl = "https://hdrezka.me/series/2-b.html"
    /\ ret.isSeries

C12_WitnessMovie ==
    /\ getContentInfoReturned
    /\ page.html = "<a data-id=\"123\">"
    /\ pageUrl = "https://hdrezka.me/films/1-a.html"
    /\ ~ret.isSeries

-----------------------------------------------------------------------------
\* the (season, episode number) pairs of a scripted page, in document order:
\* the page is read item by item, an item that is no episode item (a piece
\* of Fragments, a season tab) adding no pair
RECURSIVE C13_Pairs(_)
C13_Pairs(html) ==
    IF html = "" THEN <<>>
    ELSE LET items == {i \in 1..Len(SeasonItems) :
                          StartsWithAt(html, 1, SeasonItem(SeasonItems[i].season,
                                                           SeasonItems[i].episode))}
             others == {f \in {Fragments[i] : i \in 1..Len(Fragments)} \cup {SeasonTab} :
                          StartsWithAt(html, 1, f)}
         IN  IF items # {}
             THEN LET it == SeasonItems[CHOOSE i \in items : TRUE]
                  IN  <<[season |-> it.season, number |-> it.number]>>
                      \o C13_Pairs(SubSeq(html, Len(SeasonItem(it.season, it.episode)) + 1,
                                          Len(html)))
             ELSE C13_Pairs(SubSeq(html, Len(CHOOSE f \in others : TRUE) + 1, Len(html)))

\* index of the first pair of the season with that episode number
C13_FirstAt(pairs, s, n) ==
    Least({k \in 1..Len(pairs) : pairs[k].season = s /\ pairs[k].number = n})

\* C13: seasons has one key per season id of a paired marker; under it the
\* episode ids paired with that season, each once, in the order of their
\* first appearance in the document; a page with /series/ in its URL and
\* the one pair 10/3 gives isSeries true and seasons {"10": [3]}.
C13_SeasonsByFirstAppearance ==
    getContentInfoReturned =>
        LET pairs == C13_Pairs(page.html)
            S == ret.seasons
        IN  /\ {S[i][1] : i \in 1..Len(S)} = {pairs[k].season : k \in 1..Len(pairs)}
            /\ \A i, j \in 1..Len(S) : S[i][1] = S[j][1] => i = j
            /\ \A i \in 1..Len(S) :
                  LET eps == S[i][2]
                  IN  /\ \A a, b \in 1..Len(eps) : eps[a] = eps[b] => a = b
                      /\ {eps[a] : a \in 1..Len(eps)}
                            = {pairs[k].number : k \in {k \in 1..Len(pairs) :
                                                          pairs[k].season = S[i][1]}}
                      /\ \A a, b \in 1..Len(eps) :
                            a < b => C13_FirstAt(pairs, S[i][1], eps[a])
                                       < C13_FirstAt(pairs, S[i][1], eps[b])
            /\ (page.html = SeasonItem("10", "3") /\ Includes(pageUrl, "/series/"))
                  => ret.isSeries /\ S = <<<<"10", <<3>>>>>>

\* C13 witness: episode 3 before episode 1 and then 3 again, with another
\* season in between: 3 stays first and is listed once.
C13_Witness ==
    /\ getContentInfoReturned
    /\ page.html = SeasonItem("10", "3") \o SeasonItem("10", "1") \o SeasonItem("10", "3")
    /\ ret.isSeries
    /\ ret.seasons = <<<<"10", <<3, 1>>>>>>

C13_WitnessFixture ==
    /\ getContentInfoReturned
    /\ page.html = SeasonItem("10", "3")
    /\ pageUrl = "https://hdrezka.me/series/2-b.html"
    /\ ret.isSeries
    /\ ret.seasons = <<<<"10", <<3>>>>>>

-----------------------------------------------------------------------------
\* the items a scripted page can be made of, and the translator each names
C14_Items ==
    {Fragments[i] : i \in 1..Len(Fragments)} \cup {SeasonTab}
    \cup {SeasonItem(SeasonItems[i].season, SeasonItems[i].episode) : i \in 1..Len(SeasonItems)}

C14_EntryOf(item) ==
    IF item = "<li data-translator_id=\"4\">Dub</li>"
    THEN <<[id |-> Num(4), name |-> "Dub"]>>
    ELSE IF item = "<li data-translator_id=\"56\" class=\"b\"> Sub </li>"
    THEN <<[id |-> Num(56), name |-> "Sub"]>>
    ELSE <<>>

\* the (translator id, display name) pairs of a scripted page, item by item
RECURSIVE C14_Pairs(_)
C14_Pairs(html) ==
    IF html = "" THEN <<>>
    ELSE LET item == CHOOSE f \in C14_Items : StartsWithAt(html, 1, f)
         IN  C14_EntryOf(item) \o C14_Pairs(SubSeq(html, Len(item) + 1, Len(html)))

\* C14: translators holds one entry for every (data-translator_id, display
\* name) pair of the page, in document order, a repeated pair repeated.
C14_TranslatorsInDocumentOrder ==
    getContentInfoReturned => ret.translators = C14_Pairs(page.html)

\* C14 witness: the same translator twice around another one gives three
\* entries in page order.
C14_Witness ==
    /\ getContentInfoReturned
    /\ page.html = "<li data-translator_id=\"4\">Dub</li>"
                   \o "<li data-translator_id=\"56\" class=\"b\"> Sub </li>"
                   \o "<li data-translator_id=\"4\">Dub</li>"
    /\ Len(ret.translators) = 3
    /\ ret.translators[1] = [id |-> Num(4), name |-> "Dub"]
    /\ ret.translators[2] = [id |-> Num(56), name |-> "Sub"]
    /\ ret.translators[3] = ret.translators[1]

-----------------------------------------------------------------------------
\* the subtitle data and the language mapping of the envelope
C15_Subtitle == GetProp(ajax.body, "subtitle")

C15_Codes ==
    LET lns == GetProp(ajax.body, "subtitle_lns")
    IN  IF lns.t = "object" THEN SelectSeq(lns.entries, LAMBDA e : e[1] # "off") ELSE <<>>

\* C15: with subtitle data and a language mapping in the envelope, subtitles
\* has one entry per code of the mapping other than "off", in the order of
\* the mapping, with the code's display name and the one subtitle data value
\* as url; "off" is never an entry.
C15_OneEntryPerLanguage ==
    getStreamReturned =>
        /\ \A i \in 1..Len(ret.subtitles) : ret.subtitles[i].lang # "off"
        /\ (Truthy(C15_Subtitle) /\ GetProp(ajax.body, "subtitle_lns").t = "object") =>
              /\ Len(ret.subtitles) = Len(C15_Codes)
              /\ \A i \in 1..Len(C15_Codes) :
                    ret.subtitles[i] = [lang |-> C15_Codes[i][1],
                                        name |-> C15_Codes[i][2],
                                        url |-> C15_Subtitle]

\* C15 witness: "off" between two languages; the two languages come out in
\* the mapping's order with the same url.
C15_Witness ==
    /\ getStreamReturned
    /\ GetProp(ajax.body, "subtitle_lns")
         = Obj(<<<<"ru", Str("Russian")>>, <<"off", Str("")>>, <<"en", Str("English")>>>>)
    /\ ret.subtitles = <<[lang |-> "ru", name |-> Str("Russian"), url |-> Str("s.vtt")],
                         [lang |-> "en", name |-> Str("English"), url |-> Str("s.vtt")]>>

-----------------------------------------------------------------------------
(* searchContent called on its own, against scripted search pages.         *)

MaxBlocks == 2

\* a complete result block of the search page
ResultBlock(url, title, info) ==
    "<div class=\"b-content__inline_item\" data-id=\"1\" data-url=\"" \o url \o "\">"
    \o "<div class=\"b-content__inline_item-cover\"><img src=\"p.jpg\" height=\"250\"/></div>"
    \o "<div class=\"b-content__inline_item-link\"> <a href=\"" \o url \o "\">" \o title
    \o "</a> <div>" \o info \o "</div></div></div>"

\* a result block without its link part
CoverOnlyBlock(url) ==
    "<div class=\"b-content__inline_item\" data-url=\"" \o url \o "\">"
    \o "<div class=\"b-content__inline_item-cover\"><img src=\"q.jpg\"/></div></div>"

\* the content URLs of the scripted results, with their titles
ResultUrls == <<"/series/a.html", "/cartoons/b-sezon.html", "/cartoons/c.html",
                "/films/d-sezon.html", "/films/e.html", "/animation/f.html">>

ResultTitle(i) == "T" \o NatToString(i)

ResultBlocks == [i \in 1..Len(ResultUrls) |-> ResultBlock(ResultUrls[i], ResultTitle(i), "2020, USA")]

\* the pieces a search page is made of: the complete blocks, a block
\* without link, and markup that is no result
SearchPieces == ResultBlocks \o <<CoverOnlyBlock("/films/g.html"), "<p>none</p>">>

RECURSIVE SearchPages(_)
SearchPages(k) ==
    IF k = 0 THEN {""}
    ELSE SearchPages(k - 1)
         \cup {h \o SearchPieces[i] : h \in SearchPages(k - 1), i \in 1..Len(SearchPieces)}

SearchReplies ==
    {PageReply(200, h) : h \in SearchPages(MaxBlocks)}
    \cup {PageReply(st, ResultBlocks[1]) : st \in {404, 503}}
    \cup {[kind |-> "reject"]}

Queries == {"test", "a b&c"}

InitSearch ==
    /\ pc = "searchContent"
    /\ stack = <<>>
    /\ ret = ""
    /\ retOf = ""
    /\ thrown = ""
    /\ trashString = "" /\ cleaned = "" /\ tried = <<>> /\ lastIndex = 0
    /\ IdleParse
    /\ IdleStream
    /\ IdleContent
    /\ IdleHandler
    /\ IdleLife
    /\ IdleAdmin
    /\ IdlePage
    /\ query \in Queries
    /\ search \in SearchReplies

NextSearch == searchContent_request \/ searchContent_fetch \/ searchContent_text

SpecSearch == InitSearch /\ [][NextSearch]_vars

searchContentReturned == pc = "done" /\ retOf = "searchContent"

\* C16: the type of a search result follows from its URL alone: /series/
\* gives series; otherwise /cartoons/ gives series only together with
\* "-sezon", else movie; every other URL gives movie.
C16_TypeByUrl ==
    searchContentReturned =>
        \A i \in 1..Len(ret) :
            ret[i].type =
                IF C12_Has(ret[i].url, "/series/") THEN "series"
                ELSE IF C12_Has(ret[i].url, "/cartoons/") /\ C12_Has(ret[i].url, "-sezon")
                THEN "series"
                ELSE "movie"

\* C16 witness: a /films/ URL with "-sezon" is a movie, a /cartoons/ URL
\* with it a series.
C16_Witness ==
    /\ searchContentReturned
    /\ Len(ret) = 2
    /\ ret[1].url = "/films/d-sezon.html" /\ ret[1].type = "movie"
    /\ ret[2].url = "/cartoons/b-sezon.html" /\ ret[2].type = "series"

C16_WitnessCartoon ==
    /\ searchContentReturned
    /\ Len(ret) = 2
    /\ ret[1].url = "/cartoons/c.html" /\ ret[1].type = "movie"
    /\ ret[2].url = "/series/a.html" /\ ret[2].type = "series"

-----------------------------------------------------------------------------
\* the pieces of a scripted search page, as indices of SearchPieces, in
\* markup order
RECURSIVE C17_Pieces(_)
C17_Pieces(html) ==
    IF html = "" THEN <<>>
    ELSE LET i == CHOOSE i \in 1..Len(SearchPieces) : StartsWithAt(html, 1, SearchPieces[i])
         IN  <<i>> \o C17_Pieces(SubSeq(html, Len(SearchPieces[i]) + 1, Len(html)))

C17_Complete(i) == i <= Len(ResultUrls)

C17_IsItem(i) == i <= Len(ResultUrls) + 1

C17_UrlOf(i) == IF C17_Complete(i) THEN ResultUrls[i] ELSE "/films/g.html"

\* a is b with some elements left out
RECURSIVE C17_SubSeqOf(_, _)
C17_SubSeqOf(a, b) ==
    IF a = <<>> THEN TRUE
    ELSE IF b = <<>> THEN FALSE
    ELSE IF Head(a) = Head(b) THEN C17_SubSeqOf(Tail(a), Tail(b))
    ELSE C17_SubSeqOf(a, Tail(b))

C17_Failed == search.kind = "reject" \/ ~Ok(search.status)

\* C17: searchContent raises only when the search fetch fails or answers
\* outside 2xx; otherwise it returns the entries of the result blocks in
\* markup order: one entry per block when every block is complete, never an
\* entry out of page order, and the empty sequence when the page has no
\* result marker.
C17_EntriesInMarkupOrder ==
    /\ pc = "threw" => C17_Failed
    /\ pc = "done" => ~C17_Failed /\ retOf = "searchContent"
    /\ searchContentReturned =>
          LET pieces == C17_Pieces(search.html)
              items == SelectSeq(pieces, C17_IsItem)
          IN  /\ items = <<>> => ret = <<>>
              /\ C17_SubSeqOf([k \in 1..Len(ret) |-> ret[k].url],
                              [k \in 1..Len(items) |-> C17_UrlOf(items[k])])
              /\ (\A k \in 1..Len(items) : C17_Complete(items[k])) =>
                    /\ Len(ret) = Len(items)
                    /\ \A k \in 1..Len(items) :
                          /\ ret[k].url = ResultUrls[items[k]]
                          /\ ret[k].title = ResultTitle(items[k])
                          /\ ret[k].poster = "p.jpg"
                          /\ ret[k].year = Str("2020")

\* C17 witness: two complete blocks give two entries in page order.
C17_Witness ==
    /\ searchContentReturned
    /\ search.html = ResultBlocks[5] \o ResultBlocks[1]
    /\ Len(ret) = 2
    /\ ret[1].url = "/films/e.html" /\ ret[1].title = "T5"
    /\ ret[2].url = "/series/a.html" /\ ret[2].title = "T1"

C17_WitnessEmpty ==
    /\ searchContentReturned
    /\ search.html = "<p>none</p>"
    /\ ret = <<>>

C17_WitnessFailed == pc = "threw" /\ thrown = "Search failed: 503"

-----------------------------------------------------------------------------
(* The worker handling one request, against scripted upstream answers.     *)

\* the incoming requests: preflights, the static paths, and the three API
\* paths with their parameters present, empty and absent
Requests ==
    {[method |-> "OPTIONS", path |-> p, params |-> <<>>] : p \in {"/api/stream", "/x"}}
    \cup {[method |-> "GET", path |-> p, params |-> <<>>] :
             p \in {"/health", "/", "/x", "/api/search", "/api/content", "/api/stream"}}
    \cup {[method |-> m, path |-> "/api/search", params |-> <<<<"q", q>>>>] :
             m \in {"GET", "POST"}, q \in {"", "test"}}
    \cup {[method |-> "GET", path |-> "/api/content", params |-> <<<<"url", u>>>>] :
             u \in {""} \cup PageUrls}
    \cup {[method |-> "GET", path |-> "/api/stream", params |-> <<<<"url", u>>>> \o rest] :
             u \in {"", "https://hdrezka.me/films/1-a.html"},
             rest \in {<<>>,
                       <<<<"translator_id", "7">>>>,
                       <<<<"translator_id", "">>, <<"season", "1">>, <<"episode", "2">>>>,
                       <<<<"season", "1">>>>,
                       <<<<"season", "x">>, <<"episode", "0">>>>}}
    \cup {[method |-> "GET", path |-> "/api/stream",
           params |-> <<<<"season", "1">>, <<"episode", "2">>>>]}

\* the content page answers: with and without a content id, with no, one and
\* two translators, failures
WorkerPageReplies ==
    {PageReply(200, "<a data-id=\"123\">" \o "<li data-translator_id=\"4\">Dub</li>"),
     PageReply(200, "<a data-id=\"123\">"),
     PageReply(200, "<a data-id=\"5\">" \o "<li data-translator_id=\"9\">Sub</li>"
                    \o "<li data-translator_id=\"4\">Dub</li>"),
     PageReply(200, "<li data-translator_id=\"4\">Dub</li>"),
     PageReply(200, ""),
     PageReply(404, "<a data-id=\"123\">"),
     [kind |-> "reject"]}

\* the AJAX answers: a playlist, the failure flag, a url that is no string,
\* failures
WorkerAjaxReplies ==
    {Reply(200, Envelope(Bool(TRUE), Str(""), Str(Obfuscate(Segments[1])),
                         Bool(FALSE), Bool(FALSE))),
     Reply(200, Envelope(Bool(FALSE), Str("Blocked"), Bool(FALSE), Bool(FALSE), Bool(FALSE))),
     Reply(200, Obj(<<<<"success", Bool(TRUE)>>, <<"url", Num(123)>>>>)),
     Reply(500, Obj(<<>>)),
     [kind |-> "reject"]}

WorkerSearchReplies ==
    {PageReply(200, ResultBlocks[1]), PageReply(200, "<p>none</p>"),
     PageReply(503, ResultBlocks[1]), [kind |-> "reject"]}

InitWorker ==
    /\ pc = "fetch"
    /\ stack = <<>>
    /\ ret = ""
    /\ retOf = ""
    /\ thrown = ""
    /\ trashString = "" /\ cleaned = "" /\ tried = <<>> /\ lastIndex = 0
    /\ IdleParse
    /\ contentId = Undefined /\ translatorId = Undefined
    /\ season = Undefined /\ episode = Undefined
    /\ data = Undefined /\ videoUrls = <<>>
    /\ pageUrl = ""
    /\ query = ""
    /\ request \in Requests
    /\ response = [status |-> 0]
    /\ page \in WorkerPageReplies
    /\ ajax \in WorkerAjaxReplies
    /\ search \in WorkerSearchReplies
    /\ sent = <<>> /\ inflight = {}
    /\ IdleLife
    /\ IdleAdmin
    /\ IdlePage

NextWorker ==
    \/ fetch_options
    \/ fetch_static
    \/ fetch_search_route
    \/ fetch_search
    \/ fetch_content_route
    \/ fetch_content
    \/ fetch_info
    \/ fetch_stream
    \/ fetch_catch
    \/ searchContent_request
    \/ searchContent_fetch
    \/ searchContent_text
    \/ getContentInfo_request
    \/ getContentInfo_fetch
    \/ getContentInfo_text
    \/ getStream_request
    \/ getStream_fetch
    \/ getStream_json
    \/ clearTrash_replace
    \/ clearTrash_try
    \/ clearTrash_retry
    \/ parseVideoUrls_split
    \/ parseVideoUrls_part
    \/ parseVideoUrls_return
    \/ getStream_parsed
    \/ getStream_result

SpecWorker == InitWorker /\ [][NextWorker]_vars

responded == pc = "responded"

-----------------------------------------------------------------------------
C18_Absent(name) == ~MapHas(request.params, name)

\* the request lacks the parameter its route requires
C18_MissingParameter ==
    /\ request.method # "OPTIONS"
    /\ \/ request.path = "/api/search" /\ C18_Absent("q")
       \/ request.path \in {"/api/content", "/api/stream"} /\ C18_Absent("url")

\* C18: a request to /api/search without q, or to /api/content or
\* /api/stream without url, issues no outbound fetch and is answered with
\* status 400 and a JSON body holding an error text.
C18_MissingParameterIs400 ==
    C18_MissingParameter =>
        /\ sent = <<>>
        /\ pc \in {"fetch", "responded"}
        /\ responded =>
              /\ response.status = 400
              /\ DOMAIN response.body = {"error"}
              /\ response.body.error # ""
              /\ MapGet(response.headers, "Content-Type") = "application/json"

\* C18 witness: /api/stream with season and episode but without url.
C18_Witness ==
    /\ responded
    /\ request.path = "/api/stream" /\ C18_Absent("url") /\ ~C18_Absent("season")
    /\ response.status = 400
    /\ response.body = [error |-> "Missing url parameter"]
    /\ sent = <<>>

C18_WitnessSearch ==
    /\ responded
    /\ request.path = "/api/search" /\ C18_Absent("q")
    /\ response.status = 400
    /\ response.body = [error |-> "Missing query parameter"]

\* the page fetch of an /api/stream request succeeded with a page that has
\* no content id
C19_NoContentId ==
    /\ request.method # "OPTIONS"
    /\ request.path = "/api/stream"
    /\ ~C18_Absent("url") /\ MapGet(request.params, "url") # ""
    /\ page.kind = "response" /\ Ok(page.status)
    /\ ~C10_Occurs(page.html, "data-id")

\* C19: on /api/stream, when the content page is fetched but holds no
\* content id, the answer is 404 and the AJAX POST is never issued.
C19_NoContentIdIs404 ==
    C19_NoContentId =>
        /\ \A i \in 1..Len(sent) : sent[i].method # "POST"
        /\ Len(sent) <= 1
        /\ responded =>
              /\ response.status = 404
              /\ response.body = [error |-> "Could not find content ID"]
              /\ Len(sent) = 1 /\ sent[1].url = MapGet(request.params, "url")

\* C19 witness: a page with a translator but no content id.
C19_Witness ==
    /\ responded
    /\ C19_NoContentId
    /\ page.html = "<li data-translator_id=\"4\">Dub</li>"
    /\ response.status = 404
    /\ Len(sent) = 1

\* the upstream answer to the i-th outbound fetch of the request
C20_ReplyTo(i) ==
    IF sent[i].method = "POST" THEN ajax
    ELSE IF request.path = "/api/search" THEN search
    ELSE page

C20_Failure(reply) == reply.kind = "reject" \/ ~Ok(reply.status)

\* the message of the error a failed fetch raises
C20_Message(i) ==
    IF C20_ReplyTo(i).kind = "reject" THEN "fetch failed"
    ELSE (IF sent[i].method = "POST" THEN "AJAX request failed: "
          ELSE IF request.path = "/api/search" THEN "Search failed: "
          ELSE "Failed to fetch page: ")
         \o NatToString(C20_ReplyTo(i).status)

\* C20: when an outbound fetch of a request fails or answers outside 2xx,
\* the request ends with a 500 response whose body carries the error
\* message; the failed fetch is the last one issued (no retry, no further
\* fetch) and no fetch is issued twice.
C20_FailedFetchIs500 ==
    /\ \A i \in 1..Len(sent) : C20_Failure(C20_ReplyTo(i)) => i = Len(sent)
    /\ \A i, j \in 1..Len(sent) : sent[i] = sent[j] => i = j
    /\ (sent # <<>> /\ C20_Failure(C20_ReplyTo(Len(sent)))) =>
          /\ pc \in {"searchContent_fetch", "getContentInfo_fetch", "getStream_fetch",
                     "fetch_catch", "responded"}
          /\ pc = "fetch_catch" => thrown = C20_Message(Len(sent))
          /\ responded =>
                /\ response.status = 500
                /\ response.body = [error |-> C20_Message(Len(sent))]

\* C20 witness: the page is fetched, the AJAX POST answers 500, and the
\* request ends with a 500 after these two fetches.
C20_Witness ==
    /\ responded
    /\ Len(sent) = 2 /\ sent[2].method = "POST"
    /\ ajax.kind = "response" /\ ajax.status = 500
    /\ response.status = 500
    /\ response.body = [error |-> "AJAX request failed: 500"]

C20_WitnessPage ==
    /\ responded
    /\ Len(sent) = 1
    /\ page.kind = "response" /\ page.status = 404
    /\ response.status = 500
    /\ response.body = [error |-> "Failed to fetch page: 404"]

C20_WitnessSearch ==
    /\ responded
    /\ request.path = "/api/search"
    /\ Len(sent) = 1 /\ search.kind = "reject"
    /\ response.status = 500

-----------------------------------------------------------------------------
\* C24: seasons is populated for series only: whenever getContentInfo
\* returns isSeries false, its seasons is the empty mapping.
C24_SeasonsForSeriesOnly ==
    getContentInfoReturned => (~ret.isSeries => ret.seasons = <<>>)

\* C24 witness: a page that is no series, with its translators scraped and
\* no seasons.
C24_Witness ==
    /\ getContentInfoReturned
    /\ ~ret.isSeries
    /\ ret.translators # <<>>
    /\ ret.seasons = <<>>

C24_WitnessSeries ==
    /\ getContentInfoReturned
    /\ ret.isSeries
    /\ ret.seasons # <<>>

-----------------------------------------------------------------------------

\* C21: every response of the handler, whatever its status, carries the
\* header Access-Control-Allow-Origin with the value "*"; an OPTIONS
\* request, to any path, issues no outbound fetch and is answered with
\* status 200 and no body.
C21_CorsOnEveryResponse ==
    /\ pc # "threw"
    /\ responded =>
          /\ response.status \in {200, 400, 404, 500}
          /\ MapHas(response.headers, "Access-Control-Allow-Origin")
          /\ MapGet(response.headers, "Access-Control-Allow-Origin") = "*"
    /\ request.method = "OPTIONS" =>
          /\ sent = <<>>
          /\ pc \in {"fetch", "responded"}
          /\ responded => response.status = 200 /\ response.body = Null

\* C21 witness: a 500 answer, made by the catch clause, with the header.
C21_Witness ==
    /\ responded
    /\ response.status = 500
    /\ MapGet(response.headers, "Access-Control-Allow-Origin") = "*"

C21_WitnessOptions ==
    /\ responded
    /\ request.method = "OPTIONS" /\ request.path = "/api/stream"
    /\ response.status = 200 /\ response.body = Null /\ sent = <<>>

C21_Witness200 == responded /\ request.method # "OPTIONS" /\ response.status = 200

C21_Witness400 == responded /\ response.status = 400

C21_Witness404 == responded /\ response.status = 404

-----------------------------------------------------------------------------
\* the page fetch of the request succeeded and the page holds a content id
C22_PageWithId ==
    /\ page.kind = "response" /\ Ok(page.status)
    /\ C10_Occurs(page.html, "data-id")

\* C22: one /api/stream request issues at most one page fetch and then one
\* AJAX POST, in that order: the POST is issued only after the page fetch
\* has settled with a page that holds a content id, only the fetch issued
\* last can be in flight, and a request answered 200 has issued exactly
\* these two; /api/search and /api/content issue at most one fetch, every
\* other request none.
C22_PageFetchThenPost ==
    /\ inflight \subseteq {Len(sent)} \ {0}
    /\ request.path \in {"/api/search", "/api/content"} =>
          /\ Len(sent) <= 1
          /\ \A i \in 1..Len(sent) : sent[i].method = "GET"
    /\ request.path = "/api/stream" =>
          /\ Len(sent) <= 2
          /\ Len(sent) >= 1 =>
                sent[1] = [url |-> MapGet(request.params, "url"), method |-> "GET",
                           body |-> ""]
          /\ Len(sent) = 2 => sent[2].method = "POST" /\ C22_PageWithId
          /\ (responded /\ response.status = 200 /\ request.method # "OPTIONS") =>
                Len(sent) = 2
          /\ (responded /\ C22_PageWithId /\ request.method # "OPTIONS"
                /\ ~C18_MissingParameter /\ MapGet(request.params, "url") # "") =>
                Len(sent) = 2
    /\ request.path \notin {"/api/search", "/api/content", "/api/stream"} => sent = <<>>

\* C22 witness: the POST of an /api/stream request is in flight, the page
\* fetch before it is not.
C22_Witness ==
    /\ request.path = "/api/stream"
    /\ Len(sent) = 2
    /\ sent[1].method = "GET" /\ sent[2].method = "POST"
    /\ inflight = {2}

C22_WitnessAnswered ==
    /\ responded
    /\ request.path = "/api/stream" /\ response.status = 200
    /\ Len(sent) = 2 /\ inflight = {}

C22_WitnessContent ==
    /\ responded
    /\ request.path = "/api/content" /\ response.status = 200
    /\ Len(sent) = 1

-----------------------------------------------------------------------------
\* the texts of the field of that name in a form body
C25_Field(body, name) ==
    LET fields == Split(body, "&")
    IN  {SubSeq(fields[i], Len(name) + 2, Len(fields[i])) :
            i \in {k \in 1..Len(fields) : StartsWithAt(fields[k], 1, name \o "=")}}

\* the request names a translator: translator_id is present and not empty
C25_Named ==
    /\ MapHas(request.params, "translator_id")
    /\ MapGet(request.params, "translator_id") # ""

\* C25: the translator_id of the AJAX POST of an /api/stream request is the
\* request's translator_id parameter when that is present and not empty;
\* otherwise it is the first data-translator_id of the content page, and
\* the text "null" when the page has none.
C25_TranslatorOfRequestOrPage ==
    \A i \in 1..Len(sent) :
        sent[i].method = "POST" =>
            C25_Field(sent[i].body, "translator_id") =
                {IF C25_Named THEN MapGet(request.params, "translator_id")
                 ELSE IF C10_Occurs(page.html, "data-translator_id")
                 THEN C10_First(page.html, "data-translator_id")
                 ELSE "null"}

\* C25 witness: the request names translator 7, the page's first translator
\* is 9, and the POST carries 7.
C25_Witness ==
    /\ Len(sent) = 2
    /\ C25_Named
    /\ C10_Occurs(page.html, "data-translator_id")
    /\ C10_First(page.html, "data-translator_id") = "9"
    /\ C25_Field(sent[2].body, "translator_id") = {"7"}

C25_WitnessDefault ==
    /\ Len(sent) = 2
    /\ MapHas(request.params, "translator_id") /\ ~C25_Named
    /\ C10_Occurs(page.html, "data-translator_id")
    /\ C25_Field(sent[2].body, "translator_id") = {"9"}

C25_WitnessNone ==
    /\ Len(sent) = 2
    /\ ~MapHas(request.params, "translator_id")
    /\ ~C10_Occurs(page.html, "data-translator_id")
    /\ C25_Field(sent[2].body, "translator_id") = {"null"}

-----------------------------------------------------------------------------
(* The worker handling one request that its client may cancel.             *)

NextCancel == NextWorker \/ request_cancel

SpecCancel == InitWorker /\ [][NextCancel]_vars

\* C26: once the incoming request is cancelled none of its outbound fetches
\* is in flight any more (a fetch in flight at that moment is cancelled with
\* it), and no outbound fetch is started afterwards.
C26_CancellationPropagates ==
    /\ [](cancelled => inflight = {})
    /\ [][cancelled => sent' = sent]_vars

-----------------------------------------------------------------------------
(* The worker handling several requests, one after the other.              *)

MaxRequests == 3

StreamRequest(rest) ==
    [method |-> "GET", path |-> "/api/stream",
     params |-> <<<<"url", "https://hdrezka.me/films/1-a.html">>>> \o rest]

PageWithId == PageReply(200, "<a data-id=\"123\">" \o "<li data-translator_id=\"4\">Dub</li>")

Playlist(payload) ==
    Reply(200, Envelope(Bool(TRUE), Str(""), Str(Obfuscate(payload)), Bool(FALSE),
                        Bool(FALSE)))

\* a request together with the upstream answers it will meet: two streams
\* that resolve, streams whose POST or page fetch fails, a search, a content
\* page, a request without its parameter, a health check, a preflight
SessionInputs ==
    {[request |-> StreamRequest(<<>>), page |-> PageWithId,
      ajax |-> Playlist(Segments[1]), search |-> [kind |-> "reject"]],
     [request |-> StreamRequest(<<<<"season", "1">>, <<"episode", "2">>>>),
      page |-> PageWithId,
      ajax |-> Playlist(Segments[2] \o "," \o Segments[3]), search |-> [kind |-> "reject"]],
     [request |-> StreamRequest(<<>>), page |-> PageWithId,
      ajax |-> Reply(500, Obj(<<>>)), search |-> [kind |-> "reject"]],
     [request |-> StreamRequest(<<>>), page |-> [kind |-> "reject"],
      ajax |-> Playlist(Segments[1]), search |-> [kind |-> "reject"]],
     [request |-> [method |-> "GET", path |-> "/api/search", params |-> <<<<"q", "test">>>>],
      page |-> PageWithId, ajax |-> [kind |-> "reject"],
      search |-> PageReply(200, ResultBlocks[1])],
     [request |-> [method |-> "GET", path |-> "/api/content",
                   params |-> <<<<"url", "https://hdrezka.me/series/2-b.html">>>>],
      page |-> PageWithId, ajax |-> [kind |-> "reject"], search |-> [kind |-> "reject"]],
     [request |-> [method |-> "GET", path |-> "/api/content", params |-> <<>>],
      page |-> PageWithId, ajax |-> [kind |-> "reject"], search |-> [kind |-> "reject"]],
     [request |-> [method |-> "GET", path |-> "/health", params |-> <<>>],
      page |-> PageWithId, ajax |-> [kind |-> "reject"], search |-> [kind |-> "reject"]],
     [request |-> [method |-> "OPTIONS", path |-> "/api/stream", params |-> <<>>],
      page |-> PageWithId, ajax |-> [kind |-> "reject"], search |-> [kind |-> "reject"]]}

InitSession ==
    /\ pc = "fetch"
    /\ stack = <<>>
    /\ ret = ""
    /\ retOf = ""
    /\ thrown = ""
    /\ trashString = "" /\ cleaned = "" /\ tried = <<>> /\ lastIndex = 0
    /\ IdleParse
    /\ contentId = Undefined /\ translatorId = Undefined
    /\ season = Undefined /\ episode = Undefined
    /\ data = Undefined /\ videoUrls = <<>>
    /\ pageUrl = ""
    /\ query = ""
    /\ response = [status |-> 0]
    /\ \E first \in SessionInputs :
          /\ request = first.request
          /\ page = first.page
          /\ ajax = first.ajax
          /\ search = first.search
    /\ sent = <<>> /\ inflight = {}
    /\ IdleLife
    /\ IdleAdmin
    /\ IdlePage

fetch_next ==
    /\ Len(log) < MaxRequests - 1
    /\ \E next \in SessionInputs : fetch_accept(next)

NextSession == NextWorker \/ fetch_next

SpecSession == InitSession /\ [][NextSession]_vars

-----------------------------------------------------------------------------
\* the requests handled so far, the present one included once it is answered
C23_Handled ==
    IF responded
    THEN Append(log, [request |-> request, page |-> page, ajax |-> ajax, search |-> search,
                      sent |-> sent, response |-> response])
    ELSE log

\* the upstream answers a handled request received, in the order of its
\* fetches
C23_Received(e) ==
    [i \in 1..Len(e.sent) |->
        IF e.sent[i].method = "POST" THEN e.ajax
        ELSE IF e.request.path = "/api/search" THEN e.search
        ELSE e.page]

\* C23: the answer to a request is determined by the request and the
\* upstream answers it receives: any two requests handled by the worker
\* that are equal and receive equal upstream answers issue the same fetches
\* and get the same response, whatever was handled before them; the junk
\* pattern's match position is 0 whenever a request starts, ends, or calls
\* clearTrash.
C23_NoStateBetweenRequests ==
    /\ pc \in {"fetch", "responded", "clearTrash"} => lastIndex = 0
    /\ \A i, j \in 1..Len(C23_Handled) :
          LET a == C23_Handled[i]
              b == C23_Handled[j]
          IN  (a.request = b.request /\ C23_Received(a) = C23_Received(b)) =>
                 /\ a.sent = b.sent
                 /\ a.response = b.response

\* C23 witness: a stream request resolved first, then a request that
\* failed, then the first request again with the same answer as before.
C23_Witness ==
    /\ responded
    /\ Len(log) = 2
    /\ log[1].request = request /\ log[1].ajax = ajax /\ log[1].page = page
    /\ log[2].response.status = 500
    /\ request.method = "GET" /\ request.path = "/api/stream"
    /\ response.status = 200
    /\ response = log[1].response
    /\ response.body.stream_url = "a.m3u8"

-----------------------------------------------------------------------------
(* The admin lists of the frontend (admin-lists.js): the values.           *)
(* state.lists is a sequence of lists [id, title, items]; an item is a     *)
(* record of the six fields normalizeItem gives it. What the server sends  *)
(* is a JavaScript value as JSON.parse returns it.                         *)

\* an array, as JSON.parse returns it
Arr(elems) == [t |-> "array", elems |-> elems]

\* line 96: the title of a list that has none (the source has the Russian
\* for "new list"; the model writes it in Latin letters)
DefaultTitle == "Novyj spisok"

\* String(v || '') of lines 81-83 and 95-96
StringOrEmpty(v) == IF Truthy(v) THEN JSToString(v) ELSE ""

\* lines 79-88
normalizeItem(item) ==
    [type |-> StringOrEmpty(GetProp(item, "type")),
     id |-> StringOrEmpty(GetProp(item, "id")),
     title |-> Trim(StringOrEmpty(GetProp(item, "title"))),
     year |-> IF GetProp(item, "year") \in {Undefined, Null} THEN Str("")
              ELSE GetProp(item, "year"),
     poster |-> IF Truthy(GetProp(item, "poster")) THEN GetProp(item, "poster") ELSE Str(""),
     url |-> IF Truthy(GetProp(item, "url")) THEN GetProp(item, "url") ELSE Str("")]

\* line 102: normalized.url || type:id
NormalizedKey(n) == IF Truthy(n.url) THEN n.url ELSE Str(n.type \o ":" \o n.id)

\* lines 99-106: the items of one entry, the ones without type or id and
\* the repeated keys left out
RECURSIVE NormalizeItems(_, _, _)
NormalizeItems(raw, seen, items) ==
    IF raw = <<>> THEN items
    ELSE LET normalized == normalizeItem(raw[1])
         IN  IF normalized.type = "" \/ normalized.id = ""
                \/ NormalizedKey(normalized) \in seen
             THEN NormalizeItems(Tail(raw), seen, items)
             ELSE NormalizeItems(Tail(raw), seen \cup {NormalizedKey(normalized)},
                                 Append(items, normalized))

\* lines 93-112: one entry of the raw lists; entries that are no objects
\* are left out. The entries of the model all carry an id, so the random
\* id of line 95 is never drawn.
NormalizeEntry(entry) ==
    IF ~Truthy(entry) \/ entry.t \notin {"object", "array"} THEN <<>>
    ELSE <<[id |-> StringOrEmpty(GetProp(entry, "id")),
            title |-> IF Trim(StringOrEmpty(GetProp(entry, "title"))) = ""
                      THEN DefaultTitle
                      ELSE Trim(StringOrEmpty(GetProp(entry, "title"))),
            items |-> IF GetProp(entry, "items").t = "array"
                      THEN NormalizeItems(GetProp(entry, "items").elems, {}, <<>>)
                      ELSE <<>>]>>

RECURSIVE NormalizeEntries(_)
NormalizeEntries(raw) ==
    IF raw = <<>> THEN <<>>
    ELSE NormalizeEntry(raw[1]) \o NormalizeEntries(Tail(raw))

\* lines 90-114
normalizeLists(rawLists) ==
    IF rawLists.t # "array" THEN <<>> ELSE NormalizeEntries(rawLists.elems)

\* Number(v) for the values a revision can be
ToNumber(v) ==
    CASE v.t = "number" -> v
      [] v.t = "null" -> Num(0)
      [] v.t = "boolean" -> Num(IF v.bool THEN 1 ELSE 0)
      [] v.t = "string" ->
            IF Trim(v.str) = "" THEN Num(0)
            ELSE IF \A i \in 1..Len(Trim(v.str)) : IsDigit(Chr(Trim(v.str), i))
            THEN parseInt(Trim(v.str))
            ELSE NaN
      [] OTHER -> NaN

\* lines 116-123, json being the argument data; data?.x of a value that is
\* no object is undefined
normalizeEnvelope(json) ==
    LET lists == normalizeLists(GetProp(json, "lists"))
        given == GetProp(json, "revision")
        number == IF given \in {Undefined, Null}
                  THEN Num(IF lists # <<>> THEN 1 ELSE 0)
                  ELSE ToNumber(given)
        revision == IF number = NaN \/ number.num < 0 THEN 0 ELSE number.num
    IN  [lists |-> lists,
         revision |-> IF revision = 0 /\ lists # <<>> THEN 1 ELSE revision,
         updatedAt |-> IF Truthy(GetProp(json, "updated_at"))
                       THEN Str(JSToString(GetProp(json, "updated_at")))
                       ELSE Null]

\* an item and the lists as JSON.stringify writes them and JSON.parse
\* reads them back
ItemJson(item) ==
    Obj(<<<<"type", Str(item.type)>>, <<"id", Str(item.id)>>, <<"title", Str(item.title)>>,
          <<"year", item.year>>, <<"poster", item.poster>>, <<"url", item.url>>>>)

ListJson(list) ==
    Obj(<<<<"id", Str(list.id)>>, <<"title", Str(list.title)>>,
          <<"items", Arr([i \in 1..Len(list.items) |-> ItemJson(list.items[i])])>>>>)

ListsJson(lists) == Arr([i \in 1..Len(lists) |-> ListJson(lists[i])])

-----------------------------------------------------------------------------
(* The admin lists: the functions that run without waiting. Each takes the *)
(* parts of the page it may change, as one record w, and gives them back;  *)
(* w.puts collects the PUT requests the call issues.                       *)

World ==
    [state |-> state, badge |-> badge, backup |-> backup, timers |-> timers,
     puts |-> <<>>, runs |-> runs, controls |-> controls]

\* lines 562-630: render draws the lists anew; attachHeaderEvents (line 519)
\* and addListItemControls (line 478) give them handlers in admin mode only
render(w) == [w EXCEPT !.controls = w.state.isAdmin]

\* lines 175-181, on a page that has the badge element
setSaveBadge(w, mode, text) == [w EXCEPT !.badge = [mode |-> mode, text |-> text]]

\* lines 183-198
setAdminMode(w, enabled) ==
    IF ~enabled
    THEN setSaveBadge([w EXCEPT !.state.isAdmin = FALSE], "ok", "read-only")
    ELSE IF w.state.dirty
    THEN setSaveBadge([w EXCEPT !.state.isAdmin = TRUE], "dirty", "unsaved")
    ELSE IF Truthy(w.state.updatedAt)
    THEN setSaveBadge([w EXCEPT !.state.isAdmin = TRUE], "ok", "saved")
    ELSE setSaveBadge([w EXCEPT !.state.isAdmin = TRUE], "ok", "ready")

\* lines 161-173, with localStorage taking the text
saveBackupEnvelope(w, savedAt) ==
    [w EXCEPT !.backup = Obj(<<<<"lists", ListsJson(w.state.lists)>>,
                               <<"revision", Num(w.state.revision)>>,
                               <<"updated_at", w.state.updatedAt>>,
                               <<"saved_at", Num(savedAt)>>>>)]

\* lines 321-333: the PUT goes out with the lists as they are now
doSaveRequest(w, baseRevision) ==
    [w EXCEPT !.puts = Append(@, [lists |-> w.state.lists, base_revision |-> baseRevision])]

\* a flushSave call waiting for the answer to the PUT it has just issued,
\* after those it issued earlier
Waiting(w, at, earlier) ==
    [w EXCEPT !.runs = Append(@, [at |-> at,
                                  requests |-> Append(earlier, w.puts[Len(w.puts)]),
                                  body |-> Null])]

\* the PUT a flushSave call has issued last
Request(r) == r.requests[Len(r.requests)]

\* lines 335-345: flushSave up to its first await
flushSaveUnguarded(w) ==
    IF ~w.state.isAdmin \/ ~w.state.dirty THEN w
    ELSE Waiting(doSaveRequest(setSaveBadge([w EXCEPT !.state.saveInFlight = TRUE],
                                            "saving", "saving"),
                               w.state.revision),
                 "first", <<>>)

flushSave(w) ==
    IF ~w.state.isAdmin \/ ~w.state.dirty THEN w
    ELSE IF w.state.saveInFlight THEN [w EXCEPT !.state.saveQueued = TRUE]
    ELSE Waiting(doSaveRequest(setSaveBadge([w EXCEPT !.state.saveInFlight = TRUE],
                                            "saving", "saving"),
                               w.state.revision),
                 "first", <<>>)

\* lines 375-381: the finally clause of flushSave
flushSave_finally(w) ==
    IF w.state.saveQueued
    THEN flushSave([w EXCEPT !.state.saveInFlight = FALSE, !.state.saveQueued = FALSE])
    ELSE [w EXCEPT !.state.saveInFlight = FALSE]

\* clearTimeout(state.saveTimer) when there is one
ClearSaveTimer(w) == [w EXCEPT !.timers = {t \in @ : t.id # w.state.saveTimer}]

\* the id setTimeout returns: one that no timeout carries (the least such
\* stands for any of them)
FreshTimer(w) ==
    CHOOSE id \in 1..(Cardinality(w.timers) + 1) :
        /\ \A t \in w.timers : t.id # id
        /\ \A k \in 1..(id - 1) : \E t \in w.timers : t.id = k

\* line 7
SAVE_DEBOUNCE_MS == 600

\* setTimeout(callback, delay) called when the clock reads `set`
Timeout(id, delay) == [id |-> id, set |-> now, delay |-> delay]

\* lines 304-319 without the clearTimeout of lines 307 and 314
scheduleSaveKeeping(w, immediate) ==
    IF ~w.state.isAdmin THEN w
    ELSE IF immediate
    THEN flushSave([w EXCEPT !.state.saveTimer = 0])
    ELSE [w EXCEPT !.timers = @ \cup {Timeout(FreshTimer(w), SAVE_DEBOUNCE_MS)},
                   !.state.saveTimer = FreshTimer(w)]

\* lines 304-319
scheduleSave(w, immediate) ==
    IF ~w.state.isAdmin THEN w
    ELSE IF immediate
    THEN flushSave([ClearSaveTimer(w) EXCEPT !.state.saveTimer = 0])
    ELSE [ClearSaveTimer(w) EXCEPT
             !.timers = @ \cup {Timeout(FreshTimer(ClearSaveTimer(w)), SAVE_DEBOUNCE_MS)},
             !.state.saveTimer = FreshTimer(ClearSaveTimer(w))]

\* lines 296-302
markDirtyAlways(w) ==
    scheduleSave(setSaveBadge(saveBackupEnvelope([w EXCEPT !.state.dirty = TRUE], now),
                              "dirty", "unsaved"),
                 FALSE)

\* lines 296-302, as above
markDirty(w) ==
    IF ~w.state.isAdmin THEN w
    ELSE scheduleSave(setSaveBadge(saveBackupEnvelope([w EXCEPT !.state.dirty = TRUE], now),
                                   "dirty", "unsaved"),
                      FALSE)

\* the text new Date(n).toISOString() gives for n below ten milliseconds,
\* and Date.parse of such a text (NaN for any other text)
Stamp(n) == "1970-01-01T00:00:00.00" \o NatToString(n) \o "Z"

DateParse(text) ==
    IF Len(text) = 24 /\ StartsWithAt(text, 1, "1970-01-01T00:00:00.00")
       /\ IsDigit(Chr(text, 23)) /\ Chr(text, 24) = "Z"
    THEN Num(DigitValue(Chr(text, 23)))
    ELSE NaN

\* lines 125-140: the text JSON.stringify gives is decided by this value
listsFingerprint(lists) == ListsJson(normalizeLists(ListsJson(lists)))

\* lines 142-144
sameLists(a, b) == listsFingerprint(a) = listsFingerprint(b)

\* lines 146-159: the stored envelope read back, null when nothing is stored
loadBackupEnvelope(stored) ==
    IF stored = Null THEN Null
    ELSE LET normalized == normalizeEnvelope(stored)
             savedAt == IF Truthy(GetProp(stored, "saved_at"))
                        THEN ToNumber(GetProp(stored, "saved_at"))
                        ELSE IF Truthy(GetProp(stored, "savedAt"))
                        THEN ToNumber(GetProp(stored, "savedAt"))
                        ELSE Num(0)
         IN  [lists |-> normalized.lists, revision |-> normalized.revision,
              updatedAt |-> normalized.updatedAt,
              savedAt |-> IF savedAt = NaN THEN 0 ELSE savedAt.num]

\* lines 237-246
shouldRestoreBackup(serverEnvelope, backupEnvelope) ==
    IF backupEnvelope = Null THEN FALSE
    ELSE IF backupEnvelope.lists = <<>> THEN FALSE
    ELSE IF sameLists(backupEnvelope.lists, serverEnvelope.lists) THEN FALSE
    ELSE LET serverTs == IF Truthy(serverEnvelope.updatedAt)
                         THEN DateParse(serverEnvelope.updatedAt.str)
                         ELSE Num(0)
         IN  \/ serverTs # NaN /\ backupEnvelope.savedAt > serverTs.num
             \/ serverEnvelope.lists = <<>>

\* line 248: hydrateLists up to its await, and what it does when the
\* server's envelope has come (lines 250-272) or has not (lines 273-285)
hydrateLists_loaded(w, serverEnvelope) ==
    LET loaded == [w EXCEPT !.state.lists = serverEnvelope.lists,
                            !.state.revision = serverEnvelope.revision,
                            !.state.updatedAt = serverEnvelope.updatedAt,
                            !.state.dirty = FALSE]
    IN  IF w.state.isAdmin
           /\ shouldRestoreBackup(serverEnvelope, loadBackupEnvelope(w.backup))
        THEN flushSave(setSaveBadge(
                 render([loaded EXCEPT !.state.lists = loadBackupEnvelope(w.backup).lists,
                                       !.state.dirty = TRUE]),
                 "saving", "restoring"))
        ELSE setSaveBadge(saveBackupEnvelope(render(loaded), now), "ok",
                          IF w.state.isAdmin THEN "saved" ELSE "read-only")

hydrateLists_failed(w) ==
    IF loadBackupEnvelope(w.backup) # Null /\ loadBackupEnvelope(w.backup).lists # <<>>
    THEN setSaveBadge(render([w EXCEPT !.state.lists = loadBackupEnvelope(w.backup).lists,
                                       !.state.revision = loadBackupEnvelope(w.backup).revision,
                                       !.state.updatedAt = loadBackupEnvelope(w.backup).updatedAt,
                                       !.state.dirty = FALSE]),
                      "error", IF w.state.isAdmin THEN "offline backup" ELSE "backup")
    ELSE setSaveBadge(w, "error", "load failed")

-----------------------------------------------------------------------------
(* The admin lists: the bounds of the model and what the server answers.   *)

MaxLoads == 1

MaxRevision == 2

\* the times the clock of the page may read
Times == {2}

\* the titles typed into a list's header
Titles == {"A", "B"}

\* the ids crypto.randomUUID() gives
Uuids == {"u1"}

\* an item as the search results hand it to the list picker
FoundItem ==
    Obj(<<<<"type", Str("movie")>>, <<"id", Num(7)>>, <<"title", Str("Film")>>,
          <<"year", Num(1999)>>, <<"url", Str("/films/7-film.html")>>>>)

\* another item at the same address, an item without address, and one that
\* has neither type nor id
SameUrlItem ==
    Obj(<<<<"type", Str("series")>>, <<"id", Num(8)>>, <<"title", Str("Show")>>,
          <<"url", Str("/films/7-film.html")>>>>)

PlainItem == Obj(<<<<"type", Str("movie")>>, <<"id", Num(9)>>, <<"title", Str("Nine")>>>>)

UntypedItem == Obj(<<<<"title", Str("Film")>>>>)

\* the items the list picker is opened with
PickedItems == {FoundItem, SameUrlItem, PlainItem, UntypedItem}

\* the lists the server holds before any save of this page, as it sends
\* them: with an address twice and an item without type
ServerLists ==
    Arr(<<Obj(<<<<"id", Str("s1")>>, <<"title", Str("Top")>>,
                <<"items", Arr(<<FoundItem, SameUrlItem, UntypedItem>>)>>>>)>>)

\* the answers to GET /api/lists: no answer or a status outside 2xx, an
\* envelope without lists, an envelope with lists
LoadReplies ==
    {[kind |-> "failure"],
     [kind |-> "envelope", json |-> Obj(<<<<"lists", Arr(<<>>)>>, <<"revision", Num(0)>>>>)],
     [kind |-> "envelope",
      json |-> Obj(<<<<"lists", ServerLists>>, <<"revision", Num(1)>>,
                     <<"updated_at", Str(Stamp(1))>>>>)]}

\* an answer with a status; valid tells whether its body is JSON
Answer(status, valid, json) ==
    [kind |-> "response", status |-> status, valid |-> valid, json |-> json]

\* the envelope of the server that has stored the lists of a PUT
Stored(put, at) ==
    Obj(<<<<"lists", ListsJson(put.lists)>>, <<"revision", Num(put.base_revision + 1)>>,
          <<"updated_at", Str(Stamp(at))>>>>)

\* the body of a 409: the server's present envelope
Conflict(revision) ==
    Obj(<<<<"detail",
            Obj(<<<<"current",
                    Obj(<<<<"lists", ServerLists>>, <<"revision", Num(revision)>>>>)>>>>)>>>>)

\* the answers to a PUT: no answer, 401, 500, a 409 that reports a later
\* revision or has no JSON body, and the stored envelope (or a 200 whose
\* body is no JSON)
PutReplies(put) ==
    {[kind |-> "reject"],
     Answer(401, FALSE, Null),
     Answer(500, FALSE, Null),
     Answer(409, FALSE, Null),
     Answer(200, FALSE, Null)}
    \cup {Answer(409, TRUE, Conflict(r)) :
             r \in {k \in 1..MaxRevision : k > put.base_revision}}
    \cup {Answer(200, TRUE, Stored(put, t)) :
             t \in {k \in {now} : put.base_revision < MaxRevision}}

-----------------------------------------------------------------------------
(* The admin lists: what happens on the page, one action per event.        *)

\* the page after an event
Becomes(w) ==
    /\ state' = w.state
    /\ badge' = w.badge
    /\ backup' = w.backup
    /\ timers' = w.timers
    /\ puts' = w.puts
    /\ runs' = w.runs
    /\ controls' = w.controls

\* lines 771-805: init up to its first await. Without stored credentials
\* restoreAdminIfPossible turns admin mode off at once and hydrateLists
\* starts; with them the check request goes out.
init ==
    /\ boot = "new"
    /\ \E stored \in BOOLEAN :
          IF stored
          THEN /\ boot' = "check"
               /\ Becomes(World)
               /\ UNCHANGED <<loads, calls>>
          ELSE /\ boot' = "done"
               /\ Becomes(setAdminMode(World, FALSE))
               /\ loads' = Append(loads, "init") /\ calls' = calls + 1
    /\ UNCHANGED <<now, workerVars, pageVars>>

\* lines 205-216 and 806: the check has answered (ok) or failed; then
\* hydrateLists starts
init_checked ==
    /\ boot = "check"
    /\ calls < MaxLoads
    /\ \E ok \in BOOLEAN : Becomes(setAdminMode(World, ok))
    /\ loads' = Append(loads, "init") /\ calls' = calls + 1
    /\ boot' = "done"
    /\ UNCHANGED <<now, workerVars, pageVars>>

\* lines 697-705: a click on the admin entry in admin mode
logout ==
    /\ boot # "new"
    /\ state.isAdmin
    /\ Becomes(render(setAdminMode(World, FALSE)))
    /\ UNCHANGED <<now, loads, calls, boot, workerVars, pageVars>>

\* lines 707-711: a click on the admin entry outside admin mode, access
\* granted: admin mode goes on and hydrateLists starts
login ==
    /\ boot # "new"
    /\ ~state.isAdmin
    /\ calls < MaxLoads
    /\ Becomes(setAdminMode(World, TRUE))
    /\ loads' = Append(loads, "login") /\ calls' = calls + 1
    /\ UNCHANGED <<now, boot, workerVars, pageVars>>

\* lines 790-801: a click on the sync button (outside admin mode: with
\* access granted)
sync ==
    /\ boot # "new"
    /\ LET w == IF state.isAdmin THEN World ELSE setAdminMode(World, TRUE)
       IN  IF w.state.dirty
           THEN Becomes(scheduleSave(w, TRUE)) /\ UNCHANGED <<loads, calls>>
           ELSE /\ calls < MaxLoads
                /\ Becomes(w)
                /\ loads' = Append(loads, "sync") /\ calls' = calls + 1
    /\ UNCHANGED <<now, boot, workerVars, pageVars>>

\* lines 682-695 (and 781-787): a new list with a random id
createList ==
    /\ boot # "new"
    /\ \E id \in Uuids :
          /\ \A k \in 1..Len(state.lists) : state.lists[k].id # id
          /\ LET w == IF state.isAdmin THEN World ELSE setAdminMode(World, TRUE)
             IN  Becomes(render(markDirty([w EXCEPT !.state.lists =
                                              Append(@, [id |-> id, title |-> DefaultTitle,
                                                         items |-> <<>>])])))
    /\ UNCHANGED <<now, loads, calls, boot, workerVars, pageVars>>

\* a sequence without its i-th element
RemoveAt(seq, i) == SubSeq(seq, 1, i - 1) \o SubSeq(seq, i + 1, Len(seq))

\* lines 384-389
getItemKey(item) ==
    IF Truthy(item.url) THEN item.url
    ELSE IF item.type # "" /\ item.id # "" THEN Str(item.type \o ":" \o item.id)
    ELSE Str(item.title)

\* lines 391-401 without the test of line 397
addItemToListUnchecked(w, listIndex, item) ==
    IF listIndex \notin 1..Len(w.state.lists) THEN w
    ELSE IF normalizeItem(item).type = "" \/ normalizeItem(item).id = "" THEN w
    ELSE render(markDirty([w EXCEPT !.state.lists[listIndex].items =
                                       Append(@, normalizeItem(item))]))

\* lines 391-401; listIndex counts from 1
addItemToList(w, listIndex, item) ==
    IF listIndex \notin 1..Len(w.state.lists) THEN w
    ELSE IF normalizeItem(item).type = "" \/ normalizeItem(item).id = "" THEN w
    ELSE IF \E k \in 1..Len(w.state.lists[listIndex].items) :
               getItemKey(w.state.lists[listIndex].items[k]) = getItemKey(normalizeItem(item))
    THEN w
    ELSE render(markDirty([w EXCEPT !.state.lists[listIndex].items =
                                       Append(@, normalizeItem(item))]))

\* lines 646-649 (and 718-731): a click on a list of the picker, which was
\* opened in admin mode (with access granted, outside it)
addItem ==
    /\ boot # "new"
    /\ \E listIndex \in 1..Len(state.lists), item \in PickedItems :
          LET w == IF state.isAdmin THEN World ELSE setAdminMode(World, TRUE)
          IN  Becomes(addItemToList(w, listIndex, item))
    /\ UNCHANGED <<now, loads, calls, boot, workerVars, pageVars>>

\* the items after lines 499-507: remove, or move by dir; the same items
\* when the target is outside the list
ItemControl(items, index, dir) ==
    IF dir = 0 THEN RemoveAt(items, index)
    ELSE IF index + dir \notin 1..Len(items) THEN items
    ELSE [items EXCEPT ![index + dir] = items[index], ![index] = items[index + dir]]

\* lines 491-511: a click on a control of the card at position index of
\* a list (dir 0 stands for the remove button); a move past the end of the
\* list returns at line 504
itemControl ==
    /\ controls
    /\ \E listIndex \in 1..Len(state.lists), dir \in {-1, 0, 1} :
          \E index \in 1..Len(state.lists[listIndex].items) :
             IF dir # 0 /\ index + dir \notin 1..Len(state.lists[listIndex].items)
             THEN Becomes(World)
             ELSE Becomes(render(markDirty(
                      [World EXCEPT !.state.lists[listIndex].items =
                                       ItemControl(@, index, dir)])))
    /\ UNCHANGED <<now, loads, calls, boot, workerVars, pageVars>>

\* the lists after lines 545-555: delete, up, down
ListControl(lists, action, index) ==
    IF action = "delete"
    THEN SubSeq(lists, 1, index - 1) \o SubSeq(lists, index + 1, Len(lists))
    ELSE IF action = "up" /\ index > 1
    THEN [lists EXCEPT ![index - 1] = lists[index], ![index] = lists[index - 1]]
    ELSE IF action = "down" /\ index < Len(lists)
    THEN [lists EXCEPT ![index + 1] = lists[index], ![index] = lists[index + 1]]
    ELSE lists

\* lines 539-558: a click on a control of the list at position index
listControl ==
    /\ controls
    /\ \E index \in 1..Len(state.lists), action \in {"delete", "up", "down"} :
          Becomes(render(markDirty(
              [World EXCEPT !.state.lists = ListControl(@, action, index)])))
    /\ UNCHANGED <<now, loads, calls, boot, workerVars, pageVars>>

\* lines 528-535: the title of a list was edited
titleBlur ==
    /\ controls
    /\ \E index \in 1..Len(state.lists), text \in Titles :
          /\ state.lists[index].title # text
          /\ Becomes(markDirty([World EXCEPT !.state.lists[index].title = text]))
    /\ UNCHANGED <<now, loads, calls, boot, workerVars, pageVars>>

\* lines 315-318: the callback of a timeout
saveTimer(t) == flushSave([World EXCEPT !.timers = @ \ {t}, !.state.saveTimer = 0])

\* a timeout runs; how long it has waited is left open
saveTimer_run ==
    /\ \E t \in timers : Becomes(saveTimer(t))
    /\ UNCHANGED <<now, loads, calls, boot, workerVars, pageVars>>

\* the time a step of the clock takes, and the last reading of the clock
TickMs == 300

MaxNow == 1502

\* time passes
tick ==
    /\ now + TickMs <= MaxNow
    /\ now' = now + TickMs
    /\ puts' = <<>>
    /\ UNCHANGED <<state, badge, backup, timers, runs, loads, calls, boot, controls,
                   workerVars, pageVars>>

\* a timeout runs when its delay has passed
saveTimer_due ==
    /\ \E t \in timers :
          /\ now >= t.set + t.delay
          /\ Becomes(saveTimer(t))
    /\ UNCHANGED <<now, loads, calls, boot, workerVars, pageVars>>

\* line 711: onAdminEntryClick draws the lists once its hydrateLists call
\* has returned (at once, unless that call went on to restore the backup)
Returned(w, caller) ==
    IF caller = "login" /\ w.puts = <<>> THEN render(w) ELSE w

\* lines 250-285: the load of a hydrateLists call is over
hydrateLists ==
    /\ \E i \in 1..Len(loads) :
          /\ loads' = RemoveAt(loads, i)
          /\ \E reply \in LoadReplies :
                IF reply.kind = "envelope"
                THEN Becomes(Returned(hydrateLists_loaded(World,
                                                          normalizeEnvelope(reply.json)),
                                      loads[i]))
                ELSE Becomes(Returned(hydrateLists_failed(World), loads[i]))
    /\ UNCHANGED <<now, calls, boot, workerVars, pageVars>>

\* the call runs[i] of flushSave goes on, at another await
Resumed(i) == [World EXCEPT !.runs = RemoveAt(@, i)]

Awaiting(w, r, at, body) ==
    [w EXCEPT !.runs = Append(@, [at |-> at, requests |-> r.requests, body |-> body])]

\* lines 364-373: the body of an answer that was ok has been read; a body
\* that is no JSON goes to the catch clause
SavedClearsDirty(w, valid, json) ==
    IF valid
    THEN setSaveBadge(
             render(saveBackupEnvelope(
                        [w EXCEPT !.state.lists = normalizeEnvelope(json).lists,
                                  !.state.revision = normalizeEnvelope(json).revision,
                                  !.state.updatedAt = normalizeEnvelope(json).updatedAt,
                                  !.state.dirty = FALSE],
                        now)),
             "ok", "saved")
    ELSE setSaveBadge([w EXCEPT !.state.dirty = FALSE], "error", "network error")

\* lines 364-373, as above
Saved(w, valid, json) ==
    IF valid
    THEN setSaveBadge(
             render(saveBackupEnvelope(
                        [w EXCEPT !.state.lists = normalizeEnvelope(json).lists,
                                  !.state.revision = normalizeEnvelope(json).revision,
                                  !.state.updatedAt = normalizeEnvelope(json).updatedAt,
                                  !.state.dirty = FALSE],
                        now)),
             "ok", "saved")
    ELSE setSaveBadge(w, "error", "network error")

\* lines 345-362: the first PUT of a run is answered
flushSave_first ==
    /\ \E i \in 1..Len(runs) :
          /\ runs[i].at = "first"
          /\ \E reply \in PutReplies(Request(runs[i])) :
                IF reply.kind = "reject"
                THEN Becomes(flushSave_finally(
                         setSaveBadge(Resumed(i), "error", "network error")))
                ELSE IF reply.status = 401
                THEN Becomes(flushSave_finally(
                         setSaveBadge(setAdminMode(Resumed(i), FALSE),
                                      "error", "auth required")))
                ELSE IF reply.status = 409
                THEN Becomes(Awaiting(Resumed(i), runs[i], "conflict", reply))
                ELSE IF ~Ok(reply.status)
                THEN Becomes(flushSave_finally(
                         setSaveBadge(Resumed(i), "error",
                                      "save failed (" \o NatToString(reply.status) \o ")")))
                ELSE Becomes(Awaiting(Resumed(i), runs[i], "saved", reply))
    /\ UNCHANGED <<now, loads, calls, boot, workerVars, pageVars>>

\* the envelope lines 354-355 take from the body of a 409 (a body that is
\* no JSON counts as {})
Current(body) ==
    normalizeEnvelope(
        IF ~body.valid THEN Obj(<<>>)
        ELSE IF Truthy(GetProp(GetProp(body.json, "detail"), "current"))
        THEN GetProp(GetProp(body.json, "detail"), "current")
        ELSE IF Truthy(GetProp(body.json, "current"))
        THEN GetProp(body.json, "current")
        ELSE Obj(<<>>))

\* lines 354-357: the body of the 409 has been read; the revision it
\* reports is taken and the PUT goes out again
flushSave_conflict ==
    /\ \E i \in 1..Len(runs) :
          /\ runs[i].at = "conflict"
          /\ Becomes(Waiting(doSaveRequest(
                                 [Resumed(i) EXCEPT
                                     !.state.revision = Current(runs[i].body).revision],
                                 Current(runs[i].body).revision),
                             "second", runs[i].requests))
    /\ UNCHANGED <<now, loads, calls, boot, workerVars, pageVars>>

\* lines 357-362: the second PUT of a run is answered
flushSave_second_again ==
    /\ \E i \in 1..Len(runs) :
          /\ runs[i].at = "second"
          /\ \E reply \in PutReplies(Request(runs[i])) :
                IF reply.kind = "reject"
                THEN Becomes(flushSave_finally(
                         setSaveBadge(Resumed(i), "error", "network error")))
                ELSE IF reply.status = 409
                THEN Becomes(Awaiting(Resumed(i), runs[i], "conflict", reply))
                ELSE IF ~Ok(reply.status)
                THEN Becomes(flushSave_finally(
                         setSaveBadge(Resumed(i), "error",
                                      "save failed (" \o NatToString(reply.status) \o ")")))
                ELSE Becomes(Awaiting(Resumed(i), runs[i], "saved", reply))
    /\ UNCHANGED <<now, loads, calls, boot, workerVars, pageVars>>

\* lines 357-362, as above
flushSave_second ==
    /\ \E i \in 1..Len(runs) :
          /\ runs[i].at = "second"
          /\ \E reply \in PutReplies(Request(runs[i])) :
                IF reply.kind = "reject"
                THEN Becomes(flushSave_finally(
                         setSaveBadge(Resumed(i), "error", "network error")))
                ELSE IF ~Ok(reply.status)
                THEN Becomes(flushSave_finally(
                         setSaveBadge(Resumed(i), "error",
                                      "save failed (" \o NatToString(reply.status) \o ")")))
                ELSE Becomes(Awaiting(Resumed(i), runs[i], "saved", reply))
    /\ UNCHANGED <<now, loads, calls, boot, workerVars, pageVars>>

\* lines 364-381: the body of the answer that was ok has been read
flushSave_saved ==
    /\ \E i \in 1..Len(runs) :
          /\ runs[i].at = "saved"
          /\ Becomes(flushSave_finally(
                 Saved(Resumed(i), runs[i].body.valid, runs[i].body.json)))
    /\ UNCHANGED <<now, loads, calls, boot, workerVars, pageVars>>

-----------------------------------------------------------------------------
(* The admin lists page from its construction on.                          *)

IdleWorker ==
    /\ pc = "idle"
    /\ stack = <<>>
    /\ ret = ""
    /\ retOf = ""
    /\ thrown = ""
    /\ trashString = "" /\ cleaned = "" /\ tried = <<>> /\ lastIndex = 0
    /\ IdleParse
    /\ IdleStream
    /\ IdleContent
    /\ IdleSearch
    /\ IdleHandler
    /\ IdleLife

\* the script has run; the clock of the page reads some time, the same
\* at every reading of one behaviour
InitAdmin ==
    /\ IdleWorker
    /\ IdlePage
    /\ state = [lists |-> <<>>, revision |-> 0, updatedAt |-> Null, isAdmin |-> FALSE,
                saveTimer |-> 0, saveInFlight |-> FALSE, saveQueued |-> FALSE,
                dirty |-> FALSE]
    /\ badge = [mode |-> "", text |-> ""]
    /\ backup = Null
    /\ now \in Times
    /\ timers = {}
    /\ puts = <<>>
    /\ runs = <<>>
    /\ loads = <<>>
    /\ calls = 0
    /\ boot = "new"
    /\ controls = FALSE

NextAdmin ==
    \/ init
    \/ init_checked
    \/ logout
    \/ login
    \/ sync
    \/ createList
    \/ listControl
    \/ titleBlur
    \/ saveTimer_run
    \/ hydrateLists
    \/ flushSave_first
    \/ flushSave_conflict
    \/ flushSave_second
    \/ flushSave_saved

SpecAdmin == InitAdmin /\ [][NextAdmin]_vars

NextSave ==
    \/ init
    \/ init_checked
    \/ createList
    \/ titleBlur
    \/ saveTimer_run
    \/ hydrateLists
    \/ flushSave_first
    \/ flushSave_conflict
    \/ flushSave_second
    \/ flushSave_saved

SpecSave == InitAdmin /\ [][NextSave]_vars

-----------------------------------------------------------------------------
(* The admin lists: edits and saves.                                       *)

\* the call runs[i] of flushSave has the stored envelope in hand and goes
\* on to lines 364-373 in this step
SaveSucceeds(i) ==
    /\ i \in 1..Len(runs)
    /\ runs[i].at = "saved"
    /\ runs[i].body.valid
    /\ \A j \in 1..Len(runs') : runs'[j].at # "saved"

\* the lists were edited after the PUT of runs[i] went out
EditedSince(i) ==
    /\ state.dirty
    /\ state.lists # Request(runs[i]).lists

\* C27: an edit made in admin mode while a save request is in flight is not
\* lost. When the save completes successfully the local lists are still the
\* edited ones, and the state is still dirty or a PUT with the edited lists
\* goes out.
C27_EditInFlightKept ==
    [][\A i \in 1..Len(runs) :
          SaveSucceeds(i) /\ EditedSince(i)
          => /\ state'.lists = state.lists
             /\ \/ state'.dirty
                \/ \E k \in 1..Len(puts') : puts'[k].lists = state.lists]_vars

\* the save requests that wait for their answer
Outstanding == {i \in 1..Len(runs) : runs[i].at \in {"first", "second"}}

\* a timeout runs in this step (no other step takes a timeout away)
TimerRuns == timers' # timers /\ timers' \subseteq timers

\* a call of flushSave ends in this step: the calls waiting before are gone
\* and only one started in this step, by the finally clause, may wait now
SaveEnds ==
    /\ runs # <<>>
    /\ runs' # runs \/ puts' # <<>>
    /\ \A j \in 1..Len(runs') : runs'[j].at = "first"

\* the finally clause finds saveQueued set and the flushSave it calls goes
\* past lines 336-340
Requeued == state.saveQueued /\ state'.isAdmin /\ state'.dirty

C28_OneOutstanding ==
    /\ Len(runs) <= 1
    /\ Cardinality(Outstanding) <= 1
    /\ state.saveInFlight <=> runs # <<>>
    /\ Len(puts) <= 1

C28_ArrivalInFlight ==
    state.saveInFlight /\ TimerRuns
    => /\ puts' = <<>>
       /\ runs' = runs
       /\ state' = [state EXCEPT !.saveTimer = 0,
                                 !.saveQueued = @ \/ (state.isAdmin /\ state.dirty)]

C28_QueuedOnce ==
    SaveEnds
    => /\ state'.saveQueued = FALSE
       /\ state'.saveInFlight = Requeued
       /\ Len(puts') = (IF Requeued THEN 1 ELSE 0)
       /\ Len(runs') = (IF Requeued THEN 1 ELSE 0)

\* C28: flushSave never has more than one save request outstanding. A
\* flushSave call that arrives while a save is in flight sends nothing and
\* changes nothing but saveQueued; when the save in flight ends, whatever its
\* outcome, saveInFlight is reset and a queued flush runs exactly once.
C28_SingleSaveInFlight ==
    /\ []C28_OneOutstanding
    /\ [][C28_ArrivalInFlight]_vars
    /\ [][C28_QueuedOnce]_vars

\* a flushSave call has arrived while the save was in flight and is queued
C28_Witness ==
    /\ state.saveInFlight
    /\ state.saveQueued
    /\ Cardinality(Outstanding) = 1

\* a call of flushSave takes a step: it ends, or goes on to another await
SaveSteps == runs # <<>> /\ (runs' # runs \/ puts' # <<>>)

\* the call runs[i] of flushSave ends in this step without having saved
SaveFails(i) == SaveEnds /\ i \in 1..Len(runs) /\ ~SaveSucceeds(i)

\* lists, revision, updatedAt and dirty are what they were
SavedStateKept ==
    /\ state'.lists = state.lists
    /\ state'.revision = state.revision
    /\ state'.updatedAt = state.updatedAt
    /\ state'.dirty = state.dirty

\* lines 366-369: the state takes the envelope of the answer
EnvelopeTaken(body) ==
    /\ state'.lists = normalizeEnvelope(body.json).lists
    /\ state'.revision = normalizeEnvelope(body.json).revision
    /\ state'.updatedAt = normalizeEnvelope(body.json).updatedAt
    /\ state'.dirty = FALSE

\* the badge of a failure that is a network error or a status other than
\* 409 (the statuses of PutReplies), shown when no queued flush follows
FailureBadges ==
    {"network error", "auth required", "save failed (401)", "save failed (500)"}

\* The statement as it stands: a save that ends with a network error or
\* with a non-OK status other than 409 has left lists, revision and
\* updatedAt unchanged, so every PUT it issued carried the revision it
\* started with, and has not cleared dirty.
C29_FailedSaveLeavesState ==
    [][\A i \in 1..Len(runs) :
          SaveFails(i) /\ ~state.saveQueued /\ badge'.text \in FailureBadges
          => /\ SavedStateKept
             /\ \A k \in 1..Len(runs[i].requests) :
                   runs[i].requests[k].base_revision = runs[i].requests[1].base_revision]_vars

\* C29 (amended): the step that ends a save without success (network error
\* or any non-OK status) leaves lists, revision, updatedAt and dirty as they
\* are; the only steps of a save that change any of them are the successful
\* end, which takes the server's envelope and clears dirty, and the
\* adoption of the revision of a 409, which changes revision alone.
C29_OnlySuccessReplaces ==
    [][\A i \in 1..Len(runs) :
          SaveSteps
          => IF SaveSucceeds(i) THEN EnvelopeTaken(runs[i].body)
             ELSE IF SaveFails(i) \/ runs[i].at # "conflict" THEN SavedStateKept
             ELSE state' = [state EXCEPT !.revision = Current(runs[i].body).revision]]_vars

\* a save has ended with status 500 after a 409 had its revision replaced:
\* the revision is the server's, of which no envelope was ever loaded
C29_Witness ==
    /\ badge.text = "save failed (500)"
    /\ ~state.saveInFlight
    /\ state.dirty
    /\ state.revision > 0
    /\ state.updatedAt = Null

\* a flushSave call has issued one PUT while it waits for the first answer
\* or reads the body of a 409, and never more than two
C30_AtMostTwoPuts ==
    \A i \in 1..Len(runs) :
       /\ Len(runs[i].requests) \in {1, 2}
       /\ runs[i].at \in {"first", "conflict"} => Len(runs[i].requests) = 1
       /\ runs[i].at = "second" => Len(runs[i].requests) = 2

\* the step after the body of a 409 was read: the revision of the body is
\* taken and one PUT goes out with that revision and the local lists,
\* which the conflict has not changed
C30_Resend ==
    \A i \in 1..Len(runs) :
       SaveSteps /\ runs[i].at = "conflict"
       => /\ state' = [state EXCEPT !.revision = Current(runs[i].body).revision]
          /\ runs[i].body.valid
             => Num(state'.revision)
                  = GetProp(GetProp(GetProp(runs[i].body.json, "detail"), "current"),
                            "revision")
          /\ puts' = <<[lists |-> state.lists, base_revision |-> state'.revision]>>
          /\ Len(runs') = 1 /\ runs'[1].at = "second"

\* the step after the answer to the second PUT, unless that answer is ok:
\* the call ends, nothing is sent for it, lists, revision, updatedAt and
\* dirty stay, and the badge shows the failure (unless a queued flush has
\* started the next save)
C30_SecondFailureEnds ==
    \A i \in 1..Len(runs) :
       (SaveSteps /\ runs[i].at = "second"
           /\ \A j \in 1..Len(runs') : runs'[j].at # "saved")
       => /\ SaveEnds
          /\ SavedStateKept
          /\ state.dirty => state'.dirty
          /\ IF Requeued
             THEN Len(puts') = 1 /\ Len(runs'[1].requests) = 1
             ELSE /\ puts' = <<>>
                  /\ badge'.mode = "error"
                  /\ badge'.text \in {"network error", "save failed (401)",
                                      "save failed (409)", "save failed (500)"}

-----------------------------------------------------------------------------
(* The admin lists: saves and admin mode.                                  *)

NextAuth ==
    \/ init
    \/ init_checked
    \/ logout
    \/ createList
    \/ listControl
    \/ saveTimer_run
    \/ hydrateLists
    \/ flushSave_first
    \/ flushSave_conflict
    \/ flushSave_second
    \/ flushSave_saved

SpecAuth == InitAdmin /\ [][NextAuth]_vars

\* a call of flushSave goes past lines 336-340 in this step
SaveStarts ==
    /\ puts' # <<>>
    /\ \E j \in 1..Len(runs') : runs'[j].at = "first"

\* a 401 is answered in this step (only lines 347-351 show this badge, and
\* every start of a save replaces it)
Answered401 == SaveSteps /\ badge'.text = "auth required"

C31_StartedWhenAdminAndDirty == SaveStarts => state'.isAdmin /\ state'.dirty

C31_OffDoesNothing ==
    ~state.isAdmin
    => /\ markDirty(World) = World
       /\ scheduleSave(World, TRUE) = World
       /\ scheduleSave(World, FALSE) = World

\* a step outside admin mode that is neither a load, a timeout nor a step of
\* a save (a handler of the lists drawn earlier): nothing is marked,
\* stored, scheduled or sent
C31_EditOutsideAdmin ==
    (~state.isAdmin /\ ~state'.isAdmin /\ loads' = loads /\ ~SaveSteps /\ ~TimerRuns)
    => /\ state'.dirty = state.dirty
       /\ state'.saveTimer = state.saveTimer
       /\ timers' = timers
       /\ backup' = backup
       /\ puts' = <<>>
       /\ runs' = runs

C31_After401 ==
    Answered401
    => /\ ~state'.isAdmin
       /\ state'.dirty = state.dirty
       /\ puts' = <<>>
       /\ runs' = <<>>
       /\ ~state'.saveInFlight

C31_NothingSentWhileOff ==
    (runs = <<>> /\ ~state'.isAdmin) => puts' = <<>> /\ runs' = <<>>

-----------------------------------------------------------------------------
(* The admin lists: the items of the lists.                                *)

NextItems ==
    \/ init
    \/ init_checked
    \/ addItem
    \/ itemControl
    \/ listControl
    \/ saveTimer_run
    \/ hydrateLists
    \/ flushSave_first
    \/ flushSave_saved

SpecItems == InitAdmin /\ [][NextItems]_vars

\* the key of an item of a list: its url, or type:id when it has none
KeyOf(item) == IF item.url # Str("") THEN item.url ELSE Str(item.type \o ":" \o item.id)

-----------------------------------------------------------------------------
(* The admin lists: the grid of one list.                                  *)

\* the longest list drawn and the greatest row count handed over
MaxCount == 23

MaxRows == 4

\* the item at place k of the list drawn; items may be alike
GridItem(k) == k % 4

\* lines 403-418
computeLayout(count) ==
    IF count <= 7 THEN [rows |-> 1, mode |-> "scroll"]
    ELSE LET fullRows == count \div 7
             remainder == count % 7
         IN  IF count <= 21
             THEN IF remainder = 0 THEN [rows |-> fullRows, mode |-> "wrap"]
                  ELSE IF remainder >= 5 /\ fullRows < 3
                  THEN [rows |-> fullRows + 1, mode |-> "wrap"]
                  ELSE [rows |-> fullRows, mode |-> "scroll"]
             ELSE [rows |-> 3, mode |-> "scroll"]

\* line 420: every item with its index, which counts from 0
Base(items) == [k \in 1..Len(items) |-> [item |-> items[k], __index |-> k - 1]]

\* lines 424-429: the two loops from (col, row) on
RECURSIVE Reordered(_, _, _, _, _, _)
Reordered(base, rows, columns, col, row, reordered) ==
    IF col >= columns THEN reordered
    ELSE IF row >= rows THEN Reordered(base, rows, columns, col + 1, 0, reordered)
    ELSE Reordered(base, rows, columns, col, row + 1,
                   IF row * columns + col < Len(base)
                   THEN Append(reordered, base[row * columns + col + 1])
                   ELSE reordered)

\* lines 420-431 with Math.floor at line 422
buildDisplayItemsFloor(items, rows, mode) ==
    IF mode # "scroll" \/ rows <= 1 THEN Base(items)
    ELSE Reordered(Base(items), rows, Len(items) \div rows, 0, 0, <<>>)

\* lines 420-431; Math.ceil(n / rows) of whole numbers
buildDisplayItems(items, rows, mode) ==
    IF mode # "scroll" \/ rows <= 1 THEN Base(items)
    ELSE Reordered(Base(items), rows, (Len(items) + rows - 1) \div rows, 0, 0, <<>>)

\* buildDisplayItems called with the rows and the mode of the grid
buildDisplay ==
    /\ ~drawn
    /\ cards' = buildDisplayItems(gridItems, gridRows, gridMode)
    /\ drawn' = TRUE
    /\ UNCHANGED <<gridItems, gridRows, gridMode, click, workerVars, adminVars, historyVars, panelVars>>

\* lines 583-623 for one list of the given items: layout, display items,
\* cards with their data-list-index
Grid(items) ==
    [rows |-> computeLayout(Len(items)).rows,
     mode |-> computeLayout(Len(items)).mode,
     cards |-> buildDisplayItems(items, computeLayout(Len(items)).rows,
                                 computeLayout(Len(items)).mode)]

\* render (first, or at a resize: lines 742-745)
render_grid ==
    /\ gridRows' = Grid(gridItems).rows
    /\ gridMode' = Grid(gridItems).mode
    /\ cards' = Grid(gridItems).cards
    /\ drawn' = TRUE
    /\ UNCHANGED <<gridItems, click, workerVars, adminVars, historyVars, panelVars>>

\* lines 491-511: the first click on a button (dir 0: remove) of the card
\* at some place of the grid; currentIndex is the card's data-list-index
cardControl ==
    /\ drawn
    /\ click = <<>>
    /\ \E card \in 1..Len(cards), dir \in {-1, 0, 1} :
          LET currentIndex == cards[card].__index
          IN  /\ click' = <<[card |-> card, dir |-> dir]>>
              /\ IF dir # 0 /\ currentIndex + dir \notin 0..(Len(gridItems) - 1)
                 THEN UNCHANGED <<gridItems, gridRows, gridMode, cards>>
                 ELSE /\ gridItems' = ItemControl(gridItems, currentIndex + 1, dir)
                      /\ gridRows' = Grid(gridItems').rows
                      /\ gridMode' = Grid(gridItems').mode
                      /\ cards' = Grid(gridItems').cards
    /\ UNCHANGED <<drawn, workerVars, adminVars, historyVars, panelVars>>

\* a list of up to MaxCount items, and the rows and the mode that
\* buildDisplayItems is called with
InitGrid ==
    /\ IdleWorker
    /\ IdleAdmin
    /\ IdleHistory
    /\ IdlePanel
    /\ \E count \in 0..MaxCount : gridItems = [k \in 1..count |-> GridItem(k)]
    /\ gridRows \in 0..MaxRows
    /\ gridMode \in {"scroll", "wrap"}
    /\ cards = <<>>
    /\ drawn = FALSE
    /\ click = <<>>

NextGrid == buildDisplay \/ render_grid \/ cardControl

SpecGrid == InitGrid /\ [][NextGrid]_vars

\* every index of the list is on exactly one card, and every card shows
\* the item at its index
EachItemOnce ==
    /\ Len(cards) = Len(gridItems)
    /\ \A k \in 1..Len(cards) :
          /\ cards[k].__index \in 0..(Len(gridItems) - 1)
          /\ cards[k].item = gridItems[cards[k].__index + 1]
    /\ \A j, k \in 1..Len(cards) : cards[j].__index = cards[k].__index => j = k

\* a click on a card's control removes the item the card shows, or moves
\* that item one place
ActsOnShown ==
    (click = <<>> /\ click' # <<>>) =>
       LET shown == cards[click'[1].card]
           dir == click'[1].dir
       IN  /\ gridItems[shown.__index + 1] = shown.item
           /\ dir = 0 => gridItems' = RemoveAt(gridItems, shown.__index + 1)
           /\ (dir # 0 /\ shown.__index + dir \in 0..(Len(gridItems) - 1)) =>
                 /\ gridItems'[shown.__index + dir + 1] = shown.item
                 /\ gridItems'[shown.__index + 1] = gridItems[shown.__index + dir + 1]
                 /\ \A k \in 1..Len(gridItems) :
                       k \notin {shown.__index + 1, shown.__index + dir + 1}
                          => gridItems'[k] = gridItems[k]
           /\ (dir # 0 /\ shown.__index + dir \notin 0..(Len(gridItems) - 1)) =>
                 gridItems' = gridItems

\* C38: for every list, row count and mode the cards that
\* buildDisplayItems yields are the items of the list, each once, each
\* with its index in the list, so that a card's control acts on the item
\* the card shows; and computeLayout yields 1, 2 or 3 rows.
C38_DisplayIsPermutation ==
    /\ [](drawn => EachItemOnce)
    /\ [](\A count \in 0..(MaxCount + 7) : computeLayout(count).rows \in 1..3)
    /\ [][ActsOnShown]_vars

\* the card in second place of a grid of three scrolling rows shows the
\* ninth item of a list that has lost one of its 23 items by a click
C38_Witness ==
    /\ click # <<>>
    /\ Len(gridItems) = 22
    /\ gridRows = 3
    /\ gridMode = "scroll"
    /\ cards[2].__index = 8

-----------------------------------------------------------------------------
(* The admin lists: the load and the backup of an earlier visit.           *)

\* a list that the server has never seen
LocalLists ==
    Arr(<<Obj(<<<<"id", Str("m1")>>, <<"title", Str("Mine")>>,
                <<"items", Arr(<<PlainItem>>)>>>>)>>)

\* lines 161-172: an envelope as an earlier visit has stored it
StoredEnvelope(lists, revision, updatedAt, savedAt) ==
    Obj(<<<<"lists", lists>>, <<"revision", Num(revision)>>,
          <<"updated_at", updatedAt>>, <<"saved_at", Num(savedAt)>>>>)

\* what localStorage holds when the script starts: nothing; no lists; the
\* server's lists; other lists stored before and after the server's
\* updated_at
StoredBackups ==
    {Null,
     StoredEnvelope(Arr(<<>>), 0, Null, 3),
     StoredEnvelope(ListsJson(normalizeLists(ServerLists)), 1, Str(Stamp(1)), 3),
     StoredEnvelope(LocalLists, 1, Str(Stamp(0)), 0),
     StoredEnvelope(LocalLists, 1, Str(Stamp(0)), 3)}

InitLoad ==
    /\ IdleWorker
    /\ IdlePage
    /\ state = [lists |-> <<>>, revision |-> 0, updatedAt |-> Null, isAdmin |-> FALSE,
                saveTimer |-> 0, saveInFlight |-> FALSE, saveQueued |-> FALSE,
                dirty |-> FALSE]
    /\ badge = [mode |-> "", text |-> ""]
    /\ backup \in StoredBackups
    /\ now \in Times
    /\ timers = {}
    /\ puts = <<>>
    /\ runs = <<>>
    /\ loads = <<>>
    /\ calls = 0
    /\ boot = "new"
    /\ controls = FALSE

NextLoad ==
    \/ init
    \/ init_checked
    \/ createList
    \/ saveTimer_run
    \/ hydrateLists
    \/ flushSave_first
    \/ flushSave_saved

SpecLoad == InitLoad /\ [][NextLoad]_vars

\* a hydrateLists call gets its answer, or none
LoadEnds == Len(loads') < Len(loads)

\* the time of the server's envelope: its updated_at, 0 when it has none
ServerTime(serverEnvelope) ==
    IF Truthy(serverEnvelope.updatedAt) THEN DateParse(serverEnvelope.updatedAt.str)
    ELSE Num(0)

\* the backup is to take the place of the server's lists: admin mode is on,
\* the backup has lists, they are not the server's, and it is newer than
\* the server's envelope or the server has no lists
RestoreDue(serverEnvelope) ==
    /\ state.isAdmin
    /\ loadBackupEnvelope(backup) # Null
    /\ LET stored == loadBackupEnvelope(backup)
       IN  /\ stored.lists # <<>>
           /\ stored.lists # serverEnvelope.lists
           /\ \/ /\ ServerTime(serverEnvelope) # NaN
                 /\ stored.savedAt > ServerTime(serverEnvelope).num
              \/ serverEnvelope.lists = <<>>

\* the state after a load that restores the backup: the backup's lists,
\* dirty, the server's revision
Restored(serverEnvelope) ==
    /\ state'.lists = loadBackupEnvelope(backup).lists
    /\ state'.revision = serverEnvelope.revision
    /\ state'.updatedAt = serverEnvelope.updatedAt
    /\ state'.dirty

\* a save of the backup's lists is started with the server's revision
RestoreSaved(serverEnvelope) ==
    puts' = <<[lists |-> loadBackupEnvelope(backup).lists,
               base_revision |-> serverEnvelope.revision]>>

\* the state after a load that takes the server's envelope
ServerTaken(serverEnvelope) ==
    /\ state'.lists = serverEnvelope.lists
    /\ state'.revision = serverEnvelope.revision
    /\ state'.updatedAt = serverEnvelope.updatedAt
    /\ ~state'.dirty
    /\ puts' = <<>>

\* the state after a load that failed with a backup that has lists
BackupShown ==
    /\ loadBackupEnvelope(backup) # Null
    /\ loadBackupEnvelope(backup).lists # <<>>
    /\ state'.lists = loadBackupEnvelope(backup).lists
    /\ ~state'.dirty
    /\ puts' = <<>>
    /\ runs' = runs

\* the state after a load that failed with no lists in the backup
NothingShown ==
    /\ loadBackupEnvelope(backup) = Null \/ loadBackupEnvelope(backup).lists = <<>>
    /\ state' = state
    /\ puts' = <<>>

\* what the claim says of a load that ends with this reply
Decided(reply) ==
    IF reply.kind = "envelope"
    THEN IF RestoreDue(normalizeEnvelope(reply.json))
         THEN /\ Restored(normalizeEnvelope(reply.json))
              /\ RestoreSaved(normalizeEnvelope(reply.json))
         ELSE ServerTaken(normalizeEnvelope(reply.json))
    ELSE BackupShown \/ NothingShown

\* C37: a load that ends restores the backup exactly when a restore is
\* due, and then marks the state dirty and starts a save with the server's
\* revision; every other load that succeeds leaves the server's envelope
\* in the state, with dirty false; a load that fails shows the backup that
\* has lists, with dirty false and no save started.
C37_LoadDecides == [][LoadEnds => \E reply \in LoadReplies : Decided(reply)]_vars

\* the same of the loads that end while no save is under way
LoadDecidesWhenIdle ==
    [][(LoadEnds /\ ~state.saveInFlight) => \E reply \in LoadReplies : Decided(reply)]_vars

-----------------------------------------------------------------------------
(* continue.js: the watch history.                                         *)

\* line 3
MAX_ITEMS == 10

\* the calls of one behaviour, the histories it may start from, and the
\* ids watched
MaxSteps == 2

MaxBuilt == 11

\* lines 20-22
buildKey(entry) == entry.type \o ":" \o NatToString(entry.id)

\* line 27: findIndex, counting from 1; 0 when no item has the key
RECURSIVE FindKey(_, _, _)
FindKey(h, key, k) ==
    IF k > Len(h) THEN 0
    ELSE IF h[k].key = key THEN k
    ELSE FindKey(h, key, k + 1)

\* line 29 and line 50: progress >= 0.9, progress being currentTime / duration
\* for a duration above 0 and 0 otherwise
Finished(info) == info.duration > 0 /\ 10 * info.currentTime >= 9 * info.duration

\* lines 34-51: the entry of a call at time t; existing is the history's
\* entry of the same key, or Null. title, poster, year, season, episode,
\* nextSeason and nextEpisode are copied from data (info) and left out here.
Entry(info, existing, t) ==
    [key |-> buildKey(info),
     id |-> info.id,
     type |-> info.type,
     currentTime |-> info.currentTime,
     duration |-> info.duration,
     timestamp |-> t,
     finished |-> Finished(info),
     snapshot |-> IF info.type = "movie"
                  THEN IF info.snapshot # Undefined THEN info.snapshot.str
                       ELSE IF existing # Null THEN existing.snapshot ELSE ""
                  ELSE ""]

\* the place of an entry in a history that is sorted: behind every entry
\* that is as new or newer
RECURSIVE PlaceOf(_, _, _)
PlaceOf(sorted, entry, k) ==
    IF k > Len(sorted) THEN k
    ELSE IF sorted[k].timestamp < entry.timestamp THEN k
    ELSE PlaceOf(sorted, entry, k + 1)

\* line 67: history.sort((a, b) => b.timestamp - a.timestamp), which keeps
\* the order of entries of the same timestamp
RECURSIVE SortNewestFirst(_)
SortNewestFirst(h) ==
    IF h = <<>> THEN <<>>
    ELSE LET sorted == SortNewestFirst(SubSeq(h, 1, Len(h) - 1))
             place == PlaceOf(sorted, h[Len(h)], 1)
         IN  SubSeq(sorted, 1, place - 1) \o <<h[Len(h)]>>
                \o SubSeq(sorted, place, Len(sorted))

\* lines 67-68 without the sort
NewestUnsorted(h) == SubSeq(h, 1, IF Len(h) < MAX_ITEMS THEN Len(h) ELSE MAX_ITEMS)

\* lines 67-68: sort, then slice(0, MAX_ITEMS)
Newest(h) ==
    SubSeq(SortNewestFirst(h), 1, IF Len(h) < MAX_ITEMS THEN Len(h) ELSE MAX_ITEMS)

\* lines 24-71 without the branch of lines 54-61
updateProgressKeeping(h, info, t) ==
    LET existingIndex == FindKey(h, buildKey(info), 1)
        entry == Entry(info, IF existingIndex > 0 THEN h[existingIndex] ELSE Null, t)
    IN  IF existingIndex > 0 THEN Newest([h EXCEPT ![existingIndex] = entry])
        ELSE Newest(<<entry>> \o h)

\* lines 24-71: the history stored after updateProgress(data) at time t
updateProgress(h, info, t) ==
    LET existingIndex == FindKey(h, buildKey(info), 1)
        entry == Entry(info, IF existingIndex > 0 THEN h[existingIndex] ELSE Null, t)
    IN  IF entry.type = "movie" /\ entry.finished
        THEN IF existingIndex > 0 THEN RemoveAt(h, existingIndex) ELSE h
        ELSE IF existingIndex > 0 THEN Newest([h EXCEPT ![existingIndex] = entry])
        ELSE Newest(<<entry>> \o h)

\* lines 73-78: the history stored after removeEntry(entry)
removeEntry(h, entry) == SelectSeq(h, LAMBDA item : item.key # entry.key)

\* what is watched: a film and a series of the history's oldest ids, and a
\* film and a series never watched before; two seconds or nine of ten
\* played; a frame captured of the first film only
Watched ==
    {[id |-> id, type |-> IF id % 2 = 1 THEN "movie" ELSE "series",
      currentTime |-> currentTime, duration |-> 10, snapshot |-> Undefined] :
        id \in {1, 2, MaxBuilt, MaxBuilt + 1}, currentTime \in {2, 9}}
    \cup {[id |-> 1, type |-> "movie", currentTime |-> 2, duration |-> 10,
           snapshot |-> Str("jpeg")]}

\* the history after the n titles 1..n were started one after the other,
\* title k at time k
RECURSIVE Built(_)
Built(n) ==
    IF n = 0 THEN <<>>
    ELSE updateProgress(Built(n - 1),
                        [id |-> n, type |-> IF n % 2 = 1 THEN "movie" ELSE "series",
                         currentTime |-> 2, duration |-> 10, snapshot |-> Undefined],
                        n)

\* lines 116-128, 169-181, 381-410: updateProgress is called; the clock
\* reads what it read at the call before, or more
updateProgress_call ==
    /\ steps < MaxSteps
    /\ \E info \in Watched, t \in {clock, clock + 1} :
          /\ clock' = t
          /\ history' = updateProgress(history, info, t)
          /\ call' = [op |-> "updateProgress", arg |-> info]
    /\ steps' = steps + 1
    /\ UNCHANGED <<workerVars, adminVars, gridVars, panelVars>>

\* lines 288-291: a click on the remove button of a card
removeEntry_call ==
    /\ steps < MaxSteps
    /\ \E k \in 1..Len(history) :
          /\ history' = removeEntry(history, history[k])
          /\ call' = [op |-> "removeEntry", arg |-> history[k]]
    /\ steps' = steps + 1
    /\ UNCHANGED <<clock, workerVars, adminVars, gridVars, panelVars>>

\* a history that calls from the empty one have led to
InitHistory ==
    /\ IdleWorker
    /\ IdleAdmin
    /\ IdleGrid
    /\ IdlePanel
    /\ \E n \in 0..MaxBuilt : history = Built(n) /\ clock = n
    /\ call = [op |-> ""]
    /\ steps = 0

NextHistory == updateProgress_call \/ removeEntry_call

SpecHistory == InitHistory /\ [][NextHistory]_vars

\* C34: the stored history has at most 10 entries, no two of one key, the
\* newest first; and the entry that updateProgress has just written (every
\* one but a film played to nine tenths) is in it.
C34_HistoryBounded ==
    /\ Len(history) <= 10
    /\ \A j, k \in 1..Len(history) : history[j].key = history[k].key => j = k
    /\ \A k \in 1..Len(history) : history[k].key = buildKey(history[k])
    /\ \A j, k \in 1..Len(history) : j < k => history[j].timestamp >= history[k].timestamp
    /\ (call.op = "updateProgress" /\ ~(call.arg.type = "movie" /\ Finished(call.arg)))
          => \E k \in 1..Len(history) :
                /\ history[k].key = buildKey(call.arg)
                /\ history[k].timestamp = clock
                /\ history[k].currentTime = call.arg.currentTime

\* a title never watched before was started with ten titles in the
\* history: it is in front and the oldest title is gone
C34_Witness ==
    /\ call.op = "updateProgress"
    /\ call.arg.id = MaxBuilt + 1
    /\ Len(history) = 10
    /\ history[1].id = MaxBuilt + 1
    /\ \A k \in 1..Len(history) : history[k].id # 2

\* updateProgress is called in this step
Updates == steps' = steps + 1 /\ call'.op = "updateProgress"

\* the history without the entries of the key of info
Without(h, info) == SelectSeq(h, LAMBDA item : item.key # buildKey(info))

\* a film played to nine tenths or more goes out of the history, or stays
\* out of it, and the other entries stay as they are
FilmFinishedLeaves ==
    (Updates /\ call'.arg.type = "movie" /\ Finished(call'.arg))
       => /\ history' = Without(history, call'.arg)
          /\ \A k \in 1..Len(history') : history'[k].key # buildKey(call'.arg)

\* a series played to nine tenths or more is in the history, marked
\* finished
SeriesFinishedStays ==
    (Updates /\ call'.arg.type = "series" /\ Finished(call'.arg))
       => \E k \in 1..Len(history') :
             /\ history'[k].key = buildKey(call'.arg)
             /\ history'[k].finished
             /\ history'[k].currentTime = call'.arg.currentTime

\* C35: after updateProgress for a film whose progress is 0.9 or more the
\* stored history has no entry of that film and every other entry is as it
\* was; a series at 0.9 or more stays in the history, marked finished.
C35_FinishedFilmLeaves == [][FilmFinishedLeaves /\ SeriesFinishedStays]_vars

\* the newest film of a full history was played to the end: nine entries
\* are left, none of them the film's
C35_Witness ==
    /\ steps = 1
    /\ call.op = "updateProgress"
    /\ call.arg.id = MaxBuilt
    /\ call.arg.type = "movie"
    /\ Finished(call.arg)
    /\ Len(history) = 9
    /\ \A k \in 1..Len(history) : history[k].id # MaxBuilt

-----------------------------------------------------------------------------
(* continue.js: the metadata panel of the player.                          *)

\* the greatest requestToken of a behaviour
MaxToken == 3

\* the items the player is opened with: one with an address, one without
PanelItems ==
    {[type |-> "movie", id |-> "1", url |-> "/films/1-a.html", title |-> "A", year |-> "1999"],
     [type |-> "series", id |-> "2", url |-> "", title |-> "B", year |-> ""]}

\* lines 444-449, of an item that is an object
keyFor(item) ==
    IF item = Null THEN ""
    ELSE IF item.url # "" THEN item.url
    ELSE IF item.type # "" /\ item.id # "" THEN item.type \o ":" \o item.id
    ELSE item.type \o ":" \o item.title \o ":" \o item.year

\* what /api/soap/player-meta answers for an item: its metadata, or the
\* JSON null (line 656 stores {} for it)
MetaOf(item) == [about |-> keyFor(item), description |-> "about " \o item.title]

NoMeta == [about |-> "", description |-> ""]

\* state.cache.has(key) and state.cache.get(key); the cache as a set of
\* pairs of key and data
CacheHas(p, key) == \E e \in p.cache : e[1] = key

CacheGet(p, key) == (CHOOSE e \in p.cache : e[1] = key)[2]

\* state.cache.set(key, data)
CacheSet(p, key, meta) ==
    [p EXCEPT !.cache = {e \in @ : e[1] # key} \cup {<<key, meta>>}]

\* lines 502-507
setLoadingState(p, loading) == [p EXCEPT !.loading = loading]

\* lines 578-607: the panel shows the item alone
renderBase(p) == [p EXCEPT !.rendered = <<[kind |-> "base", key |-> keyFor(p.item)]>>]

\* lines 609-641: the panel shows the metadata, as an answer for the
\* item of key
renderMeta(p, key, meta) ==
    [p EXCEPT !.rendered = <<[kind |-> "meta", key |-> key, meta |-> meta]>>]

\* a fetchAndRender call of the token at an await, or returned (at the
\* line, 0 standing for the end of the function)
Call(token, item, at, line) == [token |-> token, item |-> item, at |-> at, line |-> line]

\* the panel and the calls as one record
Panel == [panel |-> panel, fetches |-> fetches]

PanelBecomes(v) == panel' = v.panel /\ fetches' = v.fetches

\* lines 643-652 and 659-660: fetchAndRender up to its first await
fetchAndRender(v, item) ==
    LET token == v.panel.requestToken + 1
        loading == setLoadingState([v.panel EXCEPT !.requestToken = token], TRUE)
    IN  IF keyFor(item) # "" /\ CacheHas(loading, keyFor(item))
        THEN [panel |-> renderMeta(loading, keyFor(item), CacheGet(loading, keyFor(item))),
              fetches |-> Append(v.fetches, Call(token, item, "cover", 0))]
        ELSE [panel |-> loading,
              fetches |-> Append(v.fetches, Call(token, item, "fetch", 0))]

\* lines 668-678: setItem(item) of an item
setItem ==
    /\ panel.requestToken < MaxToken
    /\ \E item \in PanelItems :
          PanelBecomes(fetchAndRender(
              [Panel EXCEPT !.panel = renderBase([@ EXCEPT !.item = item])], item))
    /\ UNCHANGED <<workerVars, adminVars, gridVars, historyVars>>

\* lines 680-684: clear(); setItem(null) does the same at lines 669-673
clear ==
    /\ panel.requestToken < MaxToken
    /\ PanelBecomes([Panel EXCEPT !.panel =
           setLoadingState([@ EXCEPT !.item = Null, !.requestToken = @ + 1], FALSE)])
    /\ UNCHANGED <<workerVars, adminVars, gridVars, historyVars>>

\* lines 661-665: the call i returns at the line; the finally clause
Returns(v, i, line) ==
    [panel |-> IF v.fetches[i].token = v.panel.requestToken
               THEN setLoadingState(v.panel, FALSE)
               ELSE v.panel,
     fetches |-> [v.fetches EXCEPT ![i].at = "returned", ![i].line = line]]

\* lines 655-660 without the test of line 655
fetchAndRender_dataUnchecked(v, i, meta) ==
    LET f == v.fetches[i]
        written == renderMeta(CacheSet(v.panel, keyFor(f.item), meta), keyFor(f.item), meta)
    IN  IF f.token # written.requestToken
        THEN Returns([v EXCEPT !.panel = written], i, 659)
        ELSE [panel |-> written, fetches |-> [v.fetches EXCEPT ![i].at = "cover"]]

\* lines 655-660: the data of the answer is there
fetchAndRender_data(v, i, meta) ==
    LET f == v.fetches[i]
        written == renderMeta(CacheSet(v.panel, keyFor(f.item), meta), keyFor(f.item), meta)
    IN  IF f.token # v.panel.requestToken THEN Returns(v, i, 655)
        ELSE [panel |-> written, fetches |-> [v.fetches EXCEPT ![i].at = "cover"]]

\* lines 652-653: the answer to the fetch of a call has come (ok), or a
\* status outside 2xx, or none; the last two end in the catch clause
fetchAndRender_response ==
    /\ \E i \in 1..Len(fetches) :
          /\ fetches[i].at = "fetch"
          /\ \E ok \in BOOLEAN :
                IF ok
                THEN PanelBecomes([Panel EXCEPT !.fetches[i].at = "json"])
                ELSE PanelBecomes(Returns(Panel, i,
                         IF fetches[i].token # panel.requestToken THEN 662 ELSE 0))
    /\ UNCHANGED <<workerVars, adminVars, gridVars, historyVars>>

\* lines 654-660: the body has been read: the item's metadata, null, or
\* no JSON (the catch clause)
fetchAndRender_json ==
    /\ \E i \in 1..Len(fetches) :
          /\ fetches[i].at = "json"
          /\ \E body \in {"meta", "null", "text"} :
                CASE body = "meta" ->
                        PanelBecomes(fetchAndRender_data(Panel, i, MetaOf(fetches[i].item)))
                  [] body = "null" ->
                        PanelBecomes(fetchAndRender_data(Panel, i, NoMeta))
                  [] OTHER ->
                        PanelBecomes(Returns(Panel, i,
                            IF fetches[i].token # panel.requestToken THEN 662 ELSE 0))
    /\ UNCHANGED <<workerVars, adminVars, gridVars, historyVars>>

\* lines 660-665: the cover has loaded, or the wait for it is over
fetchAndRender_cover ==
    /\ \E i \in 1..Len(fetches) :
          /\ fetches[i].at = "cover"
          /\ PanelBecomes(Returns(Panel, i, 0))
    /\ UNCHANGED <<workerVars, adminVars, gridVars, historyVars>>

InitPanel ==
    /\ IdleWorker
    /\ IdleAdmin
    /\ IdlePage

NextPanel ==
    \/ setItem
    \/ clear
    \/ fetchAndRender_response
    \/ fetchAndRender_json
    \/ fetchAndRender_cover

SpecPanel == InitPanel /\ [][NextPanel]_vars

\* the call of the token goes on in this step
Resumes(token) ==
    \E i \in 1..Len(fetches) :
       /\ fetches[i].token = token
       /\ fetches[i].at # "returned"
       /\ fetches'[i] # fetches[i]

\* a call that is not the latest leaves the panel as it is: what is
\* rendered, the cache, the indicator
StaleChangesNothing ==
    \A token \in 1..MaxToken :
       (Resumes(token) /\ token # panel.requestToken) => panel' = panel

\* what is rendered and what is stored comes from the latest call, for
\* the item of the panel
LatestWrites ==
    (panel'.cache # panel.cache \/ (panel'.rendered # panel.rendered /\ panel'.item = panel.item
                                    /\ panel'.requestToken = panel.requestToken))
       => /\ Resumes(panel.requestToken)
          /\ panel'.rendered[1].kind = "meta"
          /\ panel'.rendered[1].key = keyFor(panel.item)
          /\ panel'.cache \ panel.cache = {<<keyFor(panel.item), panel'.rendered[1].meta>>}

\* the indicator goes off by the latest call or by clear() (setItem(null))
LoadingOffByLatest ==
    (panel.loading /\ ~panel'.loading)
       => \/ Resumes(panel.requestToken) /\ panel'.requestToken = panel.requestToken
          \/ panel'.item = Null /\ panel'.requestToken = panel.requestToken + 1

\* C32: a response is rendered and stored in the cache only for the
\* latest request; the response of an earlier request that comes after
\* setItem or clear() changes neither what is rendered nor the cache nor
\* the loading indicator; and the indicator is switched off only by the
\* latest request or by clear().
C32_OnlyLatestRenders == [][StaleChangesNothing /\ LatestWrites /\ LoadingOffByLatest]_vars

\* the response for the first item has come after the second item was
\* set and was dropped at line 655: the panel shows the second item alone,
\* the cache is empty, the indicator is on
C32_Witness ==
    /\ Len(fetches) = 2
    /\ fetches[1].at = "returned" /\ fetches[1].line = 655
    /\ fetches[2].at = "fetch"
    /\ fetches[1].item # fetches[2].item
    /\ panel.item = fetches[2].item
    /\ panel.requestToken = 2
    /\ panel.cache = {}
    /\ panel.loading
    /\ panel.rendered[1].kind = "base"
    /\ panel.rendered[1].key = keyFor(fetches[2].item)

-----------------------------------------------------------------------------
(* The admin lists: the save timer and the clock.                          *)

NextTimer ==
    \/ init
    \/ init_checked
    \/ hydrateLists
    \/ createList
    \/ titleBlur
    \/ sync
    \/ tick
    \/ saveTimer_due

SpecTimer == InitAdmin /\ [][NextTimer]_vars

\* at most one timeout is pending, and state.saveTimer is its id
OneTimer ==
    /\ Cardinality(timers) <= 1
    /\ \A t \in timers : t.id = state.saveTimer /\ t.delay = SAVE_DEBOUNCE_MS
    /\ state.saveTimer # 0 => timers # {}

\* an edit of the lists (markDirty in admin mode): neither a load nor a
\* step of a save changes them in this specification
Edits == state'.lists # state.lists /\ loads' = loads /\ state'.isAdmin

\* an edit leaves one timeout, set at the time of the edit with the delay
\* of 600 ms, whatever was pending before; and it starts no save
EditRestarts ==
    Edits => /\ state'.dirty
             /\ state'.saveTimer # 0
             /\ timers' = {[id |-> state'.saveTimer, set |-> now, delay |-> 600]}
             /\ puts' = <<>>

\* a save that starts otherwise than by the sync button or by a load is
\* started by the one pending timeout, whose delay has passed; no timeout
\* is pending after it
StartsWhenDue ==
    (puts' # <<>> /\ loads' = loads /\ ~sync)
       => /\ \E t \in timers : t.id = state.saveTimer /\ now >= t.set + t.delay
          /\ timers' = {}
          /\ state'.saveTimer = 0

\* scheduleSave(true), which the sync button calls when the state is
\* dirty, leaves no timeout and calls flushSave in the same step: a PUT
\* goes out, or the call is queued behind the one in flight
SyncFlushes ==
    (sync /\ state.dirty)
       => /\ timers' = {}
          /\ state'.saveTimer = 0
          /\ \/ puts' # <<>> /\ ~state.saveInFlight
             \/ state'.saveQueued /\ state.saveInFlight /\ puts' = <<>>

\* C36: at most one save timer is pending at any time; every markDirty in
\* admin mode cancels the pending timer and starts a delay of 600 ms, so
\* that after a burst of edits flushSave is called once, when the delay of
\* the last edit has passed; scheduleSave(true) cancels the pending timer
\* and calls flushSave at once.
C36_DebouncedSave ==
    /\ []OneTimer
    /\ [][EditRestarts]_vars
    /\ [][StartsWhenDue]_vars
    /\ [][SyncFlushes]_vars

\* a list was created and its title typed 300 ms later; 600 ms after that
\* the one PUT goes out, with the title
C36_Witness ==
    /\ now = 902
    /\ GetProp(backup, "saved_at") = Num(302)
    /\ Len(puts) = 1
    /\ Len(puts[1].lists) = 1
    /\ puts[1].lists[1].id = "u1"
    /\ puts[1].lists[1].title = "A"
    /\ Len(runs) = 1
    /\ timers = {}

====
